---- MODULE Spec2Model ----
(***************************************************************************)
(* A model of the streaming JPEG scan decoder of image/jpeg/scan.go:       *)
(* processSOS (header validation, MCU/block traversal, first-pass DC/AC    *)
(* decode, restart handling, coefficient store, tile emission), refine     *)
(* and refineNonZeroes.  Every call of an entropy primitive (readFull,     *)
(* decodeHuffman, receiveExtend, decodeBits, decodeBit) is one step whose  *)
(* result is an input drawn from the sets held in inp.                     *)
(***************************************************************************)
EXTENDS Integers, Sequences, FiniteSets, TLC

\* ------------------------------------------------------------------ bounds
MaxWBlocks == 3
MaxHBlocks == 2
MaxScans == 2
MaxRestarts == 9
MaxAl == 2
MaxCoef == 4

\* ------------------------------------------------------- program constants
blockSize == 64
maxComponents == 4
maxTh == 3
rst0Marker == 208
rst7Marker == 215

unzig ==
  << 0, 1, 8, 16, 9, 2, 3, 10,
     17, 24, 32, 25, 18, 11, 4, 5,
     12, 19, 26, 33, 40, 48, 41, 34,
     27, 20, 13, 6, 7, 14, 21, 28,
     35, 42, 49, 56, 57, 50, 43, 36,
     29, 22, 15, 23, 30, 37, 44, 51,
     58, 59, 52, 45, 38, 31, 39, 46,
     53, 60, 61, 54, 47, 55, 62, 63 >>

\* ------------------------------------------------------------- arithmetic
Pow2(n) == 2 ^ n

\* int32 values: the inputs keep every coefficient and predictor far inside
\* the 32 bits (a DC delta has at most 16 bits, al is at most 15 and an image
\* of the model has a handful of blocks), so int32 arithmetic is exact here.
\* uint16(x)
Uint16(x) == x % Pow2(16)

\* x << n on int32
Shl32(x, n) == x * Pow2(n)

\* x | y for naturals
RECURSIVE BitOr(_, _)
BitOr(x, y) ==
  IF x = 0 THEN y
  ELSE IF y = 0 THEN x
  ELSE 2 * BitOr(x \div 2, y \div 2) + (IF x % 2 = 1 \/ y % 2 = 1 THEN 1 ELSE 0)

\* The addition of delta in the place of the OR.
OrDeltaPlus(x, delta) == x + delta

\* x |= delta on int32, delta a power of two below 2^31 (two's complement:
\* \div rounds down, so (x \div delta) % 2 is the bit of x at delta's place).
OrDelta(x, delta) == IF (x \div delta) % 2 = 1 THEN x ELSE x + delta

Abs(x) == IF x < 0 THEN -x ELSE x

Sign(x) == IF x < 0 THEN -1 ELSE IF x > 0 THEN 1 ELSE 0

SetMax(S) == CHOOSE m \in S : \A k \in S : k <= m

\* A sequence as an array indexed from 0, and the concatenation of a
\* sequence of sequences.
Arr(q) == [k \in 0 .. Len(q) - 1 |-> q[k + 1]]

RECURSIVE Flatten(_)
Flatten(q) == IF q = << >> THEN << >> ELSE Head(q) \o Flatten(Tail(q))

\* ----------------------------------------------------------------- errors
nil == [kind |-> "nil", msg |-> ""]

FormatError(m) == [kind |-> "FormatError", msg |-> m]

UnsupportedError(m) == [kind |-> "UnsupportedError", msg |-> m]

ErrUnexpectedEOF == [kind |-> "io", msg |-> "unexpected EOF"]

\* An error of the byte source other than the end of the stream.
ErrClosedPipe == [kind |-> "io", msg |-> "io: read/write on closed pipe"]

\* The error of a primitive returned as a format error of the decoder.
returnErrAsFormat(e) == FormatError(e.msg)

\* if err != nil { return err } (63-65, 243-245, 273-276, 283-286, 385-387,
\* 391-393, 421-424, 440-442, 452-454, 461-464, 473-475, 485-487, 500-503).
returnErr(e) == e

\* ----------------------------------------------------------------- blocks
ZeroBlock == [k \in 0 .. blockSize - 1 |-> 0]

NilCoeffs == << >>

MakeBlocks(n) == [k \in 0 .. n - 1 |-> ZeroBlock]

ZeroDC == [k \in 0 .. maxComponents - 1 |-> 0]

ZeroScan == [k \in 0 .. maxComponents - 1 |-> [compIndex |-> 0, td |-> 0, ta |-> 0]]

\* ------------------------------------------------- the SOS header (56-148)
\* The lookup with component 0 for an identifier of no frame component.
compIndexOfOrFirst(d, cs) ==
  LET M == {j \in 0 .. d.nComp - 1 : d.comp[j].c = cs}
  IN  IF M = {} THEN 0 ELSE SetMax(M)

\* The index of the frame component whose identifier is cs, -1 when there is
\* none (the loop keeps the last match).
compIndexOf(d, cs) ==
  LET M == {j \in 0 .. d.nComp - 1 : d.comp[j].c = cs}
  IN  IF M = {} THEN -1 ELSE SetMax(M)

\* The loop over the scan's components: acc = [err, scan, totalHV].
RECURSIVE scanComponents(_, _, _, _, _)
scanComponents(d, tmp, nComp, i, acc) ==
  IF i >= nComp THEN acc
  ELSE
    LET cs == tmp[1 + 2 * i]
        compIndex == compIndexOf(d, cs)
        td == tmp[2 + 2 * i] \div 16
        ta == tmp[2 + 2 * i] % 16
    IN  IF compIndex < 0
          THEN [acc EXCEPT !.err = FormatError("unknown component selector")]
        ELSE IF \E j \in 0 .. i - 1 : acc.scan[j].compIndex = compIndex
          THEN [acc EXCEPT !.err = FormatError("repeated component selector")]
        ELSE IF td > maxTh \/ (d.baseline /\ td > 1)
          THEN [acc EXCEPT !.err = FormatError("bad Td value")]
        ELSE IF ta > maxTh \/ (d.baseline /\ ta > 1)
          THEN [acc EXCEPT !.err = FormatError("bad Ta value")]
        ELSE scanComponents(d, tmp, nComp, i + 1,
               [err |-> nil,
                scan |-> [acc.scan EXCEPT ![i] =
                            [compIndex |-> compIndex, td |-> td, ta |-> ta]],
                totalHV |-> acc.totalHV + d.comp[compIndex].h * d.comp[compIndex].v])

\* The checks with blockSize < zigEnd for blockSize <= zigEnd.
progressionOKUpTo64(zigStart, zigEnd, ah, al, nComp) ==
  /\ ~((zigStart = 0 /\ zigEnd # 0) \/ zigStart > zigEnd \/ blockSize < zigEnd)
  /\ ~(zigStart # 0 /\ nComp # 1)
  /\ ~(ah # 0 /\ ah # al + 1)

\* The spectral selection and successive approximation checks (133-148).
progressionOK(zigStart, zigEnd, ah, al, nComp) ==
  /\ ~((zigStart = 0 /\ zigEnd # 0) \/ zigStart > zigEnd \/ blockSize <= zigEnd)
  /\ ~(zigStart # 0 /\ nComp # 1)
  /\ ~(ah # 0 /\ ah # al + 1)

progressionError(zigStart, zigEnd, ah, al, nComp) ==
  IF (zigStart = 0 /\ zigEnd # 0) \/ zigStart > zigEnd \/ blockSize <= zigEnd
    THEN FormatError("bad spectral selection bounds")
  ELSE IF zigStart # 0 /\ nComp # 1
    THEN FormatError("progressive AC coefficients for more than one component")
  ELSE FormatError("bad successive approximation values")

Rejected(e) ==
  [err |-> e, read |-> FALSE, nComp |-> 0, scan |-> ZeroScan,
   zigStart |-> 0, zigEnd |-> 0, ah |-> 0, al |-> 0]

\* A segment longer than its component count asks for passes.
lengthInconsistentShort(n, nComp) == n < 4 + 2 * nComp

\* Line 67: the length against the component count read from the segment.
lengthInconsistent(n, nComp) == n # 4 + 2 * nComp

\* The successive approximation byte read for every image.
scanParamsAlwaysApprox(d, tmp, nComp) ==
  [zigStart |-> IF d.progressive THEN tmp[1 + 2 * nComp] ELSE 0,
   zigEnd |-> IF d.progressive THEN tmp[2 + 2 * nComp] ELSE blockSize - 1,
   ah |-> tmp[3 + 2 * nComp] \div 16,
   al |-> tmp[3 + 2 * nComp] % 16]

\* Lines 133-138: the spectral selection and successive approximation
\* fields are read from the segment for a progressive image only.
scanParams(d, tmp, nComp) ==
  [zigStart |-> IF d.progressive THEN tmp[1 + 2 * nComp] ELSE 0,
   zigEnd |-> IF d.progressive THEN tmp[2 + 2 * nComp] ELSE blockSize - 1,
   ah |-> IF d.progressive THEN tmp[3 + 2 * nComp] \div 16 ELSE 0,
   al |-> IF d.progressive THEN tmp[3 + 2 * nComp] % 16 ELSE 0]

\* processSOS up to line 148: n is the segment length, tmp the n bytes that
\* readFull delivers, rerr what readFull returns.
parseSOS(d, n, tmp, rerr) ==
  IF d.nComp = 0 THEN Rejected(FormatError("missing SOF marker"))
  ELSE IF n < 6 \/ 4 + 2 * d.nComp < n \/ n % 2 # 0
    THEN Rejected(FormatError("SOS has wrong length"))
  ELSE IF rerr # nil THEN [Rejected(returnErr(rerr)) EXCEPT !.read = TRUE]
  ELSE
    LET nComp == tmp[0]
    IN  IF lengthInconsistent(n, nComp)
          THEN [Rejected(FormatError("SOS length inconsistent with number of components"))
                  EXCEPT !.read = TRUE]
        ELSE
          LET comps == scanComponents(d, tmp, nComp, 0,
                         [err |-> nil, scan |-> ZeroScan, totalHV |-> 0])
              p == scanParams(d, tmp, nComp)
              zigStart == p.zigStart
              zigEnd == p.zigEnd
              ah == p.ah
              al == p.al
          IN  IF comps.err # nil THEN [Rejected(comps.err) EXCEPT !.read = TRUE]
              ELSE IF d.nComp > 1 /\ comps.totalHV > 10
                THEN [Rejected(FormatError("total sampling factors too large"))
                        EXCEPT !.read = TRUE]
              ELSE IF d.progressive /\ ~progressionOK(zigStart, zigEnd, ah, al, nComp)
                THEN [Rejected(progressionError(zigStart, zigEnd, ah, al, nComp))
                        EXCEPT !.read = TRUE]
              ELSE [err |-> nil, read |-> TRUE, nComp |-> nComp, scan |-> comps.scan,
                    zigStart |-> zigStart, zigEnd |-> zigEnd, ah |-> ah, al |-> al]

\* mxx and myy, the number of MCUs in the image (150-153).
mxxOf(d) == (d.width + 8 * d.comp[0].h - 1) \div (8 * d.comp[0].h)

myyOf(d) == (d.height + 8 * d.comp[0].v - 1) \div (8 * d.comp[0].v)

\* The allocation without the test for nil.
allocCoeffsAlways(d, pcf, hdr) ==
  IF ~d.progressive THEN pcf
  ELSE [ci \in 0 .. maxComponents - 1 |->
          IF \E i \in 0 .. hdr.nComp - 1 : hdr.scan[i].compIndex = ci
            THEN MakeBlocks(mxxOf(d) * myyOf(d) * d.comp[ci].h * d.comp[ci].v)
            ELSE pcf[ci]]

\* The lazy allocation of the coefficient store (160-167).
allocCoeffs(d, pcf, hdr) ==
  IF ~d.progressive THEN pcf
  ELSE [ci \in 0 .. maxComponents - 1 |->
          IF /\ \E i \in 0 .. hdr.nComp - 1 : hdr.scan[i].compIndex = ci
             /\ pcf[ci] = NilCoeffs
            THEN MakeBlocks(mxxOf(d) * myyOf(d) * d.comp[ci].h * d.comp[ci].v)
            ELSE pcf[ci]]

\* ------------------------------------------------------------------ state
VARIABLES
  img,          \* the frame: nComp, comp, width, height, progressive, baseline, ri
  inp,          \* the sets the inputs are drawn from
  progCoeffs,   \* d.progCoeffs
  eobRun,       \* d.eobRun
  bits,         \* d.bits: "reset" right after bits{}, "used" once a primitive read
  sc,           \* the scan: nComp, scan, zigStart, zigEnd, ah, al, mxx, myy
  my, mx, i, j, \* the loop variables of processSOS
  blockCount, mcu, expectedRST, bx, by,
  b,            \* the block being decoded
  dc,           \* the DC predictors
  zig,          \* the zig-zag position
  rf,           \* what a step keeps for the next: val0, val1, z, nz, caller
  pc,           \* where processSOS stands
  err,          \* what processSOS returned
  calls,        \* the callback invocations of this processSOS call
  visited,      \* the blocks this processSOS call decoded, in order
  nScans,       \* processSOS calls so far
  blk,          \* what happened in the current block
  log,          \* the header read, the restart bytes read, the DC deltas decoded
  pkg           \* the package-level buffers: processSOSBuf, reconstructBlockBuf,
                \* callbackBuf, shared by every decoder of the process

vars ==
  << img, inp, progCoeffs, eobRun, bits, sc, my, mx, i, j, blockCount, mcu,
     expectedRST, bx, by, b, dc, zig, rf, pc, err, calls, visited, nScans,
     blk, log, pkg >>

\* --------------------------------------------------- where a step leads to
rf0 == [val0 |-> 0, val1 |-> 0, z |-> 0, nz |-> 0, caller |-> ""]

K(pcN, zigN, bN, rfN, eobN) ==
  [pc |-> pcN, zig |-> zigN, b |-> bN, rf |-> rfN, eobRun |-> eobN, err |-> nil]

KFail(e, zigN, bN, eobN) ==
  [pc |-> "failed", zig |-> zigN, b |-> bN, rf |-> rf0, eobRun |-> eobN, err |-> e]

Apply(k) ==
  /\ pc' = k.pc
  /\ zig' = k.zig
  /\ b' = k.b
  /\ rf' = k.rf
  /\ eobRun' = k.eobRun
  /\ err' = k.err

delta(s) == Pow2(s.al)

\* The test of the AC loop (261).
acLoop(s, z, bb, e) ==
  IF z <= s.zigEnd THEN K("acHuff", z, bb, rf0, e) ELSE K("fin", z, bb, rf0, e)

\* Line 256: a pending end-of-band run takes the block, else the AC loop.
enterAC(s, z, bb, e) ==
  IF z <= s.zigEnd /\ e > 0 THEN K("fin", z, bb, rf0, Uint16(e - 1))
  ELSE acLoop(s, z, bb, e)

\* refineNonZeroes (495-519) from position z up to the next decodeBit: the
\* zero entries it passes, the break at nz = 0 and the end of the loop.
RECURSIVE nzWalk(_, _, _, _)
nzWalk(bb, z, zigEnd, nz) ==
  IF z > zigEnd THEN [zig |-> z, nz |-> nz, bit |-> FALSE]
  ELSE IF bb[unzig[z + 1]] = 0
    THEN IF nz = 0 THEN [zig |-> z, nz |-> nz, bit |-> FALSE]
         ELSE nzWalk(bb, z + 1, zigEnd, nz - 1)
  ELSE [zig |-> z, nz |-> nz, bit |-> TRUE]

\* The correction that adds delta whatever the sign.
refineCoeffUp(x, bit, dlt) == IF ~bit THEN x ELSE x + dlt

\* The correction that takes delta off whatever the sign.
refineCoeffDown(x, bit, dlt) == IF ~bit THEN x ELSE x - dlt

\* The correction of one nonzero coefficient (509-516).
refineCoeff(x, bit, dlt) ==
  IF ~bit THEN x ELSE IF x >= 0 THEN x + dlt ELSE x - dlt

\* The insertion at the position taken as a natural index.
insertCoeffNatural(bb, z, zval) ==
  IF zval # 0 THEN [bb EXCEPT ![z] = zval] ELSE bb

\* The insertion of refine (479-481).
insertCoeff(bb, z, zval) ==
  IF zval # 0 THEN [bb EXCEPT ![unzig[z + 1]] = zval] ELSE bb

RECURSIVE rfLoop(_, _, _, _)
\* The return of refineNonZeroes to refine: to line 473 (caller "loop") or to
\* line 486 (caller "eob").
nzReturn(s, bb, z, caller, zval, e) ==
  IF caller = "eob" THEN K("fin", z, bb, rf0, e)
  ELSE IF z > s.zigEnd THEN KFail(FormatError("too many coefficients"), z, bb, e)
  ELSE rfLoop(s, z + 1, insertCoeff(bb, z, zval), e)

startNZ(s, bb, z, nz, caller, zval, e) ==
  LET w == nzWalk(bb, z, s.zigEnd, nz)
  IN  IF w.bit
        THEN K("nzBit", w.zig, bb,
               [val0 |-> 0, val1 |-> 0, z |-> zval, nz |-> w.nz, caller |-> caller], e)
        ELSE nzReturn(s, bb, w.zig, caller, zval, e)

\* Lines 484-490 of refine.
rfAfterLoop(s, z, bb, e) ==
  IF e > 0 THEN startNZ(s, bb, z, -1, "eob", 0, Uint16(e - 1))
  ELSE K("fin", z, bb, rf0, e)

\* The test of the loop of refine (437).
rfLoop(s, z, bb, e) ==
  IF z <= s.zigEnd THEN K("rfHuff", z, bb, rf0, e) ELSE rfAfterLoop(s, z, bb, e)

\* The entry that goes to the loop also with a run pending.
refineEntryAlwaysLoop(s, bb, e) ==
  IF s.zigStart = 0 THEN K("rfDcBit", 0, bb, rf0, e)
  ELSE rfLoop(s, s.zigStart, bb, e)

\* The entry of refine (417-436).
refineEntry(s, bb, e) ==
  IF s.zigStart = 0 THEN K("rfDcBit", 0, bb, rf0, e)
  ELSE IF e = 0 THEN rfLoop(s, s.zigStart, bb, e)
  ELSE rfAfterLoop(s, s.zigStart, bb, e)

\* ------------------------------------------------------------ loop control
\* The j++ and i++ of the loops at 182 and 186, after a block or a continue.
afterBlock(d, s, ii, jj) ==
  LET ci == s.scan[ii].compIndex
      n == d.comp[ci].h * d.comp[ci].v
  IN  IF jj + 1 < n THEN [i |-> ii, j |-> jj + 1, pc |-> "block"]
      ELSE IF ii + 1 < s.nComp THEN [i |-> ii + 1, j |-> 0, pc |-> "block"]
      ELSE [i |-> ii + 1, j |-> 0, pc |-> "mcu"]

\* The mx++ and my++ of the loops at 180 and 181; past the last MCU
\* processSOS returns nil.
afterMCU(s, mxv, myv) ==
  IF mxv + 1 < s.mxx THEN [mx |-> mxv + 1, my |-> myv, pc |-> "block"]
  ELSE IF myv + 1 < s.myy THEN [mx |-> 0, my |-> myv + 1, pc |-> "block"]
  ELSE [mx |-> 0, my |-> myv + 1, pc |-> "idle"]

\* The restart step also after the last MCU.
restartDueAfterLast(d, s, m) == d.ri > 0 /\ m % d.ri = 0 /\ m <= s.mxx * s.myy

\* The condition of the restart step (370).
restartDue(d, s, m) == d.ri > 0 /\ m % d.ri = 0 /\ m < s.mxx * s.myy

\* The expected marker without the wrap to RST0.
nextRSTNoWrap(e) == e + 1

\* Lines 398-401.
nextRST(e) == IF e + 1 = rst7Marker + 1 THEN rst0Marker ELSE e + 1

\* The marker test of line 395.
rstAccepted(t0, t1, expected) == ~(t0 # 255 \/ t1 # expected)

\* The "\xff\x00" test of line 389.
isStuffing(t0, t1) == t0 = 255 /\ t1 = 0

\* The block position without the row of j inside the MCU.
interleavedPosTopRow(hi, vi, mxv, myv, jv) ==
  [bx |-> hi * mxv + (jv % hi), by |-> vi * myv]

\* The block position of an interleaved scan (213-214).
interleavedPos(hi, vi, mxv, myv, jv) ==
  [bx |-> hi * mxv + (jv % hi), by |-> vi * myv + (jv \div hi)]

\* The block position of a non-interleaved scan (216-218).
rasterPos(mxx, hi, cnt) == [bx |-> cnt % (mxx * hi), by |-> cnt \div (mxx * hi)]

\* The test with > for >=.
outsideStrict(d, pos) == pos.bx * 8 > d.width \/ pos.by * 8 > d.height

\* The test of line 220.
outside(d, pos) == pos.bx * 8 >= d.width \/ pos.by * 8 >= d.height

\* The index without the factor h of the row length.
storeIndexNoH(mxx, hi, pos) == pos.by * mxx + pos.bx

\* The index of a block in its component's store (227, 298).
storeIndex(mxx, hi, pos) == pos.by * mxx * hi + pos.bx

Int16(x) == ((x + Pow2(15)) % Pow2(16)) - Pow2(15)

\* The arguments of the callback (364), for the Cr block at pos.
callbackArgs(d, pos) ==
  LET bx8 == pos.bx * 8 * 2
      by8 == pos.by * 8 * 2
      bx16 == bx8 % 16
      by16 == by8 % 16
  IN  [x |-> Int16(bx8 - bx16), y |-> Int16(by8 - by16), w |-> 16, h |-> 16,
       iw |-> Int16(d.width), ih |-> Int16(d.height)]

\* ------------------------------------------------ the package-level buffers
\* A sample of a buffer is kept as its origin: the decoder that wrote it (1
\* is the decoder of this model, 2 another decoder of the process, 0 none)
\* and the block it comes from.
sample(dec, ci, pos) == [dec |-> dec, ci |-> ci, bx |-> pos.bx, by |-> pos.by]

noSample == [dec |-> 0, ci |-> 0, bx |-> 0, by |-> 0]

\* The 16x16 cell: four 8x8 luma quadrants and the two chroma planes.
cell0 == [y |-> [q \in 0 .. 3 |-> noSample], cb |-> noSample, cr |-> noSample]

pkg0 == [processSOSBuf |-> cell0, reconstructBlockBuf |-> noSample, callbackBuf |-> cell0]

\* d.quant, the quantization tables the frame supplies: the same for every
\* image here, every entry 2.
quant == [t \in 0 .. maxTh |-> [z \in 0 .. blockSize - 1 |-> 2]]

\* The zig-zag position of a natural-order index: the inverse of unzig.
zigOf ==
  [u \in 0 .. blockSize - 1 |-> CHOOSE z \in 0 .. blockSize - 1 : unzig[z + 1] = u]

\* b[unzig[zig]] *= qt[zig] for every zig (555-558).
dequantize(bb, qt) == [u \in 0 .. blockSize - 1 |-> bb[u] * qt[zigOf[u]]]

\* The inverse DCT, in place (559): a block of samples that is a function
\* of the coefficients.
idct(bb) == [idct |-> bb]

\* The level shift without the floor.
levelShiftNoFloor(c) == IF c > 127 THEN 255 ELSE c + 128

\* The level shift and the clip of one sample of the inverse DCT (566-572).
levelShift(c) == IF c < -128 THEN 0 ELSE IF c > 127 THEN 255 ELSE c + 128

\* The conversion uint8(c) of line 573.
Uint8(c) == c % 256

\* reconstructBlock (554-577) of decoder dec: the block after the in-place
\* dequantization and inverse DCT, and the content of reconstructBlockBuf,
\* which is what it returns.
reconstructBlock(d, bb, pos, ci, dec) ==
  [b |-> idct(dequantize(bb, quant[d.comp[ci].tq])),
   buf |-> sample(dec, ci, pos)]

\* Every scan reconstructs its blocks.
reconstructsAlways(d) == TRUE

\* Line 297: a progressive scan saves the block and continues.
reconstructs(d) == ~d.progressive

\* The writes of a luma block into processSOSBuf (315-324), as pairs
\* << index in processSOSBuf, index in dst >>.
lumaWrites(bxv, byv) ==
  LET bx8 == bxv * 8
      by8 == byv * 8
      bx16 == bx8 % 16
      by16 == by8 % 16
  IN  {<< ((cy + by16) * 16 + (cx + bx16)) * 3 + 0, cy * 8 + cx >> :
         cy \in 0 .. 7, cx \in 0 .. 7}

\* The writes of a chroma block, ch = 1 for Cb (326-338) and 2 for Cr
\* (340-352).
chromaWrites(bxv, byv, ch) ==
  LET bx8 == bxv * 8 * 2
      by8 == byv * 8 * 2
      bx16 == bx8 % 16
      by16 == by8 % 16
  IN  {<< ((cy * 2 + dy + by16) * 16 + (cx * 2 + dx + bx16)) * 3 + ch, cy * 8 + cx >> :
         cy \in 0 .. 7, cx \in 0 .. 7, dy \in 0 .. 1, dx \in 0 .. 1}

\* The copy of dst into processSOSBuf (313-341): a luma block into its
\* quadrant, a chroma block doubled over the whole cell.
tileWrite(cell, ci, pos, dst) ==
  IF ci = 0 THEN [cell EXCEPT !.y[2 * (pos.by % 2) + (pos.bx % 2)] = dst]
  ELSE IF ci = 1 THEN [cell EXCEPT !.cb = dst]
  ELSE IF ci = 2 THEN [cell EXCEPT !.cr = dst]
  ELSE cell

\* The blocks of component ci that reconstructProgressiveImage takes, in
\* its order (531-540).
progressiveBlocks(d, ci) ==
  LET v == (8 * d.comp[0].v) \div d.comp[ci].v
      h == (8 * d.comp[0].h) \div d.comp[ci].h
      rows == (d.height + v - 1) \div v
      cols == (d.width + h - 1) \div h
  IN  [k \in 1 .. rows * cols |-> << ci, (k - 1) % cols, (k - 1) \div cols >>]

\* ----------------------------------------------------------------- inputs
\* receiveExtend(t) delivers a t-bit value, sign-extended.
InExtRange(t, v) ==
  IF t = 0 THEN v = 0 ELSE Pow2(t - 1) <= Abs(v) /\ Abs(v) <= Pow2(t) - 1

\* No coefficient values given: the results of the primitives are drawn
\* from the sets of inp.
NoTruth == << >>

Encoded == inp.truth # NoTruth

\* The stream of an encoder of the block inp.truth, read at the place the
\* decoder stands at. The size category of v.
SizeOf(v) == CHOOSE t \in 0 .. 16 : InExtRange(t, v)

FirstOf(S) == IF S = {} THEN -1 ELSE CHOOSE m \in S : \A k \in S : m <= k

Truth(z) == inp.truth[unzig[z + 1]]

\* The point transforms: an arithmetic shift for DC, a division towards
\* zero for AC.
PointDC(al) == inp.truth[0] \div Pow2(al)

PointAC(z, al) == Sign(Truth(z)) * (Abs(Truth(z)) \div Pow2(al))

\* The DC difference of a first pass.
EncDCDiff == PointDC(sc.al) - dc[sc.scan[i].compIndex]

\* The AC symbol of a first pass at zig: the run to the next nonzero
\* coefficient and its size, a 16-zero run, or the end of the band.
EncACSymbol ==
  LET nxt == FirstOf({z \in zig .. sc.zigEnd : PointAC(z, sc.al) # 0})
  IN  IF nxt < 0 THEN 0
      ELSE IF nxt - zig >= 16 THEN 240
      ELSE (nxt - zig) * 16 + SizeOf(PointAC(nxt, sc.al))

\* The coefficient that turns nonzero in this refinement next, from zig on.
EncNewAt ==
  FirstOf({z \in zig .. sc.zigEnd : Abs(Truth(z)) \div Pow2(sc.al) = 1})

\* The symbol of a refinement at zig: the run of still-zero coefficients to
\* the next one that turns nonzero, a 16-zero run, or the end of the band.
EncRfSymbol ==
  LET nxt == EncNewAt
      run == Cardinality({z \in zig .. nxt - 1 : Abs(Truth(z)) \div Pow2(sc.al) = 0})
  IN  IF nxt < 0 THEN 0
      ELSE IF run >= 16 THEN 240
      ELSE run * 16 + 1

\* The bit of a refinement: the next bit of the DC value, the sign of a new
\* coefficient, the next bit of the magnitude of a nonzero one.
EncBit ==
  IF pc = "rfDcBit" THEN PointDC(sc.al) % 2 = 1
  ELSE IF pc = "rfSign" THEN Truth(EncNewAt) > 0
  ELSE (Abs(Truth(zig)) \div Pow2(sc.al)) % 2 = 1

ExtIn(t) ==
  IF Encoded THEN {IF pc = "dcExt" THEN EncDCDiff ELSE PointAC(zig, sc.al)}
  ELSE {v \in inp.exts : InExtRange(t, v)}

BitsIn(n) == {v \in inp.bitsVals : v < Pow2(n)}

BitIn == IF Encoded THEN {EncBit} ELSE inp.bitVals

HuffDCIn == IF Encoded THEN {SizeOf(EncDCDiff)} ELSE inp.dcSyms

HuffACIn ==
  IF Encoded THEN {IF sc.ah = 0 THEN EncACSymbol ELSE EncRfSymbol} ELSE inp.acSyms

ErrIn == inp.errs

\* What the inverse DCT leaves at a place of the block: any int32 that the
\* input gives, 0 where it gives none.
SamplesIn == IF "samples" \in DOMAIN inp THEN inp.samples ELSE {0}

blk0 == [huffDC |-> 0, huffAC |-> 0, ncorr |-> 0, nsign |-> 0, dcDelta |-> 0,
         eobIn |-> 0, eobR |-> -1, eobE |-> 0, skipped |-> FALSE,
         over |-> FALSE, perr |-> nil, dcSym |-> -1,
         sym |-> -1, ext |-> 0, bit |-> -1, sign |-> -1, from |-> -1, eobAt |-> -1,
         ncorrAt |-> 0, c |-> 0, lvl |-> 0, pix |-> -1]

\* Nothing logged: no restart bytes read (reads, bytes of the current restart
\* step), no restart done, no DC delta decoded since the scan's start or
\* the last restart (dcs), no header; no end-of-band symbol decoded in this
\* scan: run is the number of blocks still to come of the run 2^r + e of the
\* last end-of-band symbol, ended tells that the block before was the last
\* of a run, cut that a restart step came before the run's last block. The
\* blocks << component, index >> that a refinement scan of this image has
\* saved are kept over the scans (refined). The blocks that reconstructBlock
\* was called for (recon) and the content of callbackBuf at each callback
\* (tiles), in this call.
log0 == [reads |-> 0, done |-> 0, bytes |-> << >>,
         dcs |-> [k \in 0 .. maxComponents - 1 |-> << >>],
         hdr |-> [n |-> 0, tmp |-> << >>], rerr |-> nil, accepted |-> FALSE,
         run |-> 0, ended |-> FALSE, cut |-> FALSE, refined |-> {},
         recon |-> << >>, tiles |-> << >>, perr |-> nil]

ctl == << pc, zig, b, rf, eobRun, err >>

loopVars == << my, mx, i, j, blockCount, mcu, expectedRST, bx, by >>

\* What no step of the entropy decoding changes.
frameVars == << img, inp, pkg >>

\* ---------------------------------------------------------------- actions
\* processSOS from its call to the first block (56-179).
ProcessSOS ==
  /\ pc = "idle"
  /\ nScans < Len(inp.hdrs)
  /\ \E h \in inp.hdrs[nScans + 1], rerr \in {nil} \cup ErrIn :
       LET hdr == parseSOS(img, h.n, h.tmp, rerr)
       IN  /\ rerr # nil => hdr.read
           /\ log' = [log0 EXCEPT !.hdr = h, !.rerr = rerr, !.accepted = hdr.err = nil,
                                  !.refined = log.refined]
           /\ IF hdr.err # nil
                THEN /\ pc' = "failed"
                     /\ err' = hdr.err
                     /\ UNCHANGED << progCoeffs, bits, sc, dc, b >>
                ELSE /\ pc' = "block"
                     /\ err' = nil
                     /\ sc' = [nComp |-> hdr.nComp, scan |-> hdr.scan,
                               zigStart |-> hdr.zigStart, zigEnd |-> hdr.zigEnd,
                               ah |-> hdr.ah, al |-> hdr.al,
                               mxx |-> mxxOf(img), myy |-> myyOf(img)]
                     /\ progCoeffs' = allocCoeffs(img, progCoeffs, hdr)
                     /\ bits' = "reset"
                     /\ dc' = ZeroDC
                     /\ b' = ZeroBlock
  /\ my' = 0 /\ mx' = 0 /\ i' = 0 /\ j' = 0
  /\ blockCount' = 0 /\ mcu' = 0 /\ expectedRST' = rst0Marker
  /\ bx' = 0 /\ by' = 0 /\ zig' = 0 /\ rf' = rf0
  /\ calls' = << >> /\ visited' = << >> /\ nScans' = nScans + 1
  /\ blk' = blk0
  /\ UNCHANGED << eobRun, img, inp, pkg >>

\* One turn of the loop over j up to the first primitive call (186-261):
\* the block position, the skip, the load, and the entry of refine or of
\* the first pass.
BlockStart ==
  /\ pc = "block"
  /\ LET ci == sc.scan[i].compIndex
         hi == img.comp[ci].h
         vi == img.comp[ci].v
         pos == IF sc.nComp # 1 THEN interleavedPos(hi, vi, mx, my, j)
                ELSE rasterPos(sc.mxx, hi, blockCount)
         skip == sc.nComp = 1 /\ outside(img, pos)
         bb == IF img.progressive THEN progCoeffs[ci][storeIndex(sc.mxx, hi, pos)]
               ELSE ZeroBlock
     IN  /\ bx' = pos.bx
         /\ by' = pos.by
         /\ blockCount' = IF sc.nComp # 1 THEN blockCount ELSE blockCount + 1
         /\ IF skip
              THEN LET nx == afterBlock(img, sc, i, j)
                   IN  /\ i' = nx.i /\ j' = nx.j /\ pc' = nx.pc
                       /\ UNCHANGED << zig, b, rf, eobRun, err, visited >>
                       /\ blk' = [blk0 EXCEPT !.skipped = TRUE, !.eobIn = eobRun]
              ELSE /\ UNCHANGED << i, j >>
                   /\ visited' = Append(visited, << ci, pos.bx, pos.by >>)
                   /\ blk' = [blk0 EXCEPT !.eobIn = eobRun]
                   /\ Apply(IF sc.ah # 0 THEN refineEntry(sc, bb, eobRun)
                            ELSE IF sc.zigStart = 0 THEN K("dcHuff", 1, bb, rf0, eobRun)
                            ELSE enterAC(sc, sc.zigStart, bb, eobRun))
  /\ UNCHANGED << my, mx, mcu, expectedRST, progCoeffs, bits, sc, dc, calls,
                  nScans, log, img, inp, pkg >>

\* decodeHuffman of the DC table (241-247).
DcHuff ==
  /\ pc = "dcHuff"
  /\ \/ \E e \in ErrIn : /\ Apply(KFail(returnErr(e), zig, b, eobRun))
                        /\ blk' = [blk EXCEPT !.perr = e]
                        /\ UNCHANGED bits
     \/ \E value \in HuffDCIn :
          /\ bits' = "used"
          /\ blk' = [blk EXCEPT !.huffDC = @ + 1, !.dcSym = value]
          /\ Apply(IF value > 16
                     THEN KFail(UnsupportedError("excessive DC component"), zig, b, eobRun)
                     ELSE K("dcExt", zig, b, [rf0 EXCEPT !.val1 = value], eobRun))
  /\ UNCHANGED << progCoeffs, sc, dc, calls, visited, nScans, log >>
  /\ UNCHANGED << loopVars, frameVars >>

\* The predictor replaced by the delta.
dcAddNone(p, dcDelta) == dcDelta

\* dc[compIndex] += dcDelta (252).
dcAdd(p, dcDelta) == p + dcDelta

\* receiveExtend of the DC delta, the predictor and b[0] (248-258).
DcExt ==
  /\ pc = "dcExt"
  /\ \/ /\ \E e \in ErrIn : /\ Apply(KFail(returnErr(e), zig, b, eobRun))
                             /\ blk' = [blk EXCEPT !.perr = e]
        /\ UNCHANGED << bits, dc, log >>
     \/ \E dcDelta \in ExtIn(rf.val1) :
          LET ci == sc.scan[i].compIndex
              p == dcAdd(dc[ci], dcDelta)
          IN  /\ bits' = "used"
              /\ blk' = [blk EXCEPT !.dcDelta = dcDelta]
              /\ log' = [log EXCEPT !.dcs[ci] = Append(@, dcDelta)]
              /\ dc' = [dc EXCEPT ![ci] = p]
              /\ Apply(enterAC(sc, zig, [b EXCEPT ![0] = Shl32(p, sc.al)], eobRun))
  /\ UNCHANGED << progCoeffs, sc, calls, visited, nScans >>
  /\ UNCHANGED << loopVars, frameVars >>

\* The symbol (15, 0) taken as a run of 15.
acSymbolShortRun(s, z, bb, e, value) ==
  LET val0 == value \div 16
      val1 == value % 16
  IN  IF val1 # 0
        THEN IF z + val0 > s.zigEnd THEN K("fin", z + val0, bb, rf0, e)
             ELSE K("acExt", z + val0, bb, [rf0 EXCEPT !.val0 = val0, !.val1 = val1], e)
      ELSE IF val0 # 15
        THEN IF val0 # 0
               THEN K("acBits", z, bb, [rf0 EXCEPT !.val0 = val0], Uint16(Pow2(val0)))
               ELSE K("fin", z, bb, rf0, Uint16(Uint16(Pow2(val0)) - 1))
      ELSE acLoop(s, z + 15, bb, e)

\* What a first-pass AC symbol leads to (266-292).
acSymbol(s, z, bb, e, value) ==
  LET val0 == value \div 16
      val1 == value % 16
  IN  IF val1 # 0
        THEN IF z + val0 > s.zigEnd THEN K("fin", z + val0, bb, rf0, e)
             ELSE K("acExt", z + val0, bb, [rf0 EXCEPT !.val0 = val0, !.val1 = val1], e)
      ELSE IF val0 # 15
        THEN IF val0 # 0
               THEN K("acBits", z, bb, [rf0 EXCEPT !.val0 = val0], Uint16(Pow2(val0)))
               ELSE K("fin", z, bb, rf0, Uint16(Uint16(Pow2(val0)) - 1))
      ELSE acLoop(s, z + 15 + 1, bb, e)

\* decodeHuffman of the AC table in the first pass (262-292).
AcHuff ==
  /\ pc = "acHuff"
  /\ \/ \E e \in ErrIn : /\ Apply(KFail(returnErr(e), zig, b, eobRun))
                        /\ blk' = [blk EXCEPT !.perr = e]
                        /\ UNCHANGED bits
     \/ \E value \in HuffACIn :
          /\ bits' = "used"
          /\ blk' = [blk EXCEPT !.huffAC = @ + 1,
                                !.eobR = IF value % 16 = 0 /\ value \div 16 # 15
                                           THEN value \div 16 ELSE @,
                                !.over = value % 16 # 0 /\ zig + value \div 16 > sc.zigEnd,
                                !.sym = value]
          /\ Apply(acSymbol(sc, zig, b, eobRun, value))
  /\ UNCHANGED << progCoeffs, sc, dc, calls, visited, nScans, log >>
  /\ UNCHANGED << loopVars, frameVars >>

\* receiveExtend of an AC coefficient (273-277).
AcExt ==
  /\ pc = "acExt"
  /\ \/ \E e \in ErrIn : /\ Apply(KFail(returnErr(e), zig, b, eobRun))
                        /\ blk' = [blk EXCEPT !.perr = e]
                        /\ UNCHANGED bits
     \/ \E ac \in ExtIn(rf.val1) :
          /\ bits' = "used"
          /\ Apply(acLoop(sc, zig + 1, [b EXCEPT ![unzig[zig + 1]] = Shl32(ac, sc.al)],
                          eobRun))
          /\ blk' = [blk EXCEPT !.ext = ac]
  /\ UNCHANGED << progCoeffs, sc, dc, calls, visited, nScans, log >>
  /\ UNCHANGED << loopVars, frameVars >>

\* The run without the extra bits.
eobValueNoBits(e, v) == e

\* The run that an end-of-band symbol and its extra bits give (280-288,
\* 449-455), before the block's own decrement.
eobValue(e, v) == BitOr(e, Uint16(v))

\* decodeBits of the extra bits of an end-of-band run, first pass (282-289).
AcBits ==
  /\ pc = "acBits"
  /\ \/ \E e \in ErrIn : /\ Apply(KFail(returnErr(e), zig, b, eobRun))
                        /\ blk' = [blk EXCEPT !.perr = e]
                        /\ UNCHANGED bits
     \/ \E v \in BitsIn(rf.val0) :
          /\ bits' = "used"
          /\ blk' = [blk EXCEPT !.eobE = v]
          /\ Apply(K("fin", zig, b, rf0, Uint16(eobValue(eobRun, v) - 1)))
  /\ UNCHANGED << progCoeffs, sc, dc, calls, visited, nScans, log >>
  /\ UNCHANGED << loopVars, frameVars >>

\* decodeBit of a DC refinement (419-431).
RfDcBit ==
  /\ pc = "rfDcBit"
  /\ \/ \E e \in ErrIn : /\ Apply(KFail(returnErr(e), zig, b, eobRun))
                        /\ blk' = [blk EXCEPT !.perr = e]
                        /\ UNCHANGED bits
     \/ \E bit \in BitIn :
          /\ bits' = "used"
          /\ blk' = [blk EXCEPT !.ncorr = @ + 1, !.bit = IF bit THEN 1 ELSE 0]
          /\ Apply(K("fin", zig,
                     IF bit THEN [b EXCEPT ![0] = OrDelta(b[0], delta(sc))] ELSE b,
                     rf0, eobRun))
  /\ UNCHANGED << progCoeffs, sc, dc, calls, visited, nScans, log >>
  /\ UNCHANGED << loopVars, frameVars >>

\* What a symbol of an AC refinement leads to (443-472).
rfSymbol(s, z, bb, e, value) ==
  LET val0 == value \div 16
      val1 == value % 16
  IN  IF val1 = 0
        THEN IF val0 # 15
               THEN IF val0 # 0
                      THEN K("rfBits", z, bb, [rf0 EXCEPT !.val0 = val0],
                             Uint16(Pow2(val0)))
                      ELSE rfAfterLoop(s, z, bb, Uint16(Pow2(val0)))
               ELSE startNZ(s, bb, z, val0, "loop", 0, e)
      ELSE IF val1 = 1
        THEN K("rfSign", z, bb, [rf0 EXCEPT !.val0 = val0, !.val1 = val1], e)
      ELSE KFail(FormatError("unexpected Huffman code"), z, bb, e)

\* decodeHuffman of an AC refinement (439-470).
RfHuff ==
  /\ pc = "rfHuff"
  /\ \/ \E e \in ErrIn : /\ Apply(KFail(returnErr(e), zig, b, eobRun))
                        /\ blk' = [blk EXCEPT !.perr = e]
                        /\ UNCHANGED bits
     \/ \E value \in HuffACIn :
          /\ bits' = "used"
          /\ blk' = [blk EXCEPT !.huffAC = @ + 1,
                                !.eobR = IF value % 16 = 0 /\ value \div 16 # 15
                                           THEN value \div 16 ELSE @,
                                !.sym = value, !.from = zig,
                                !.eobAt = IF value % 16 = 0 /\ value \div 16 # 15
                                            THEN zig ELSE @,
                                !.ncorrAt = blk.ncorr]
          /\ Apply(rfSymbol(sc, zig, b, eobRun, value))
  /\ UNCHANGED << progCoeffs, sc, dc, calls, visited, nScans, log >>
  /\ UNCHANGED << loopVars, frameVars >>

\* decodeBits of the extra bits of an end-of-band run, refinement (451-457).
RfBits ==
  /\ pc = "rfBits"
  /\ \/ \E e \in ErrIn : /\ Apply(KFail(returnErr(e), zig, b, eobRun))
                        /\ blk' = [blk EXCEPT !.perr = e]
                        /\ UNCHANGED bits
     \/ \E v \in BitsIn(rf.val0) :
          /\ bits' = "used"
          /\ blk' = [blk EXCEPT !.eobE = v]
          /\ Apply(rfAfterLoop(sc, zig, b, eobValue(eobRun, v)))
  /\ UNCHANGED << progCoeffs, sc, dc, calls, visited, nScans, log >>
  /\ UNCHANGED << loopVars, frameVars >>

\* The new coefficient with the sign bit taken the other way round.
newCoeffSwapped(dlt, bit) == IF bit THEN -dlt ELSE dlt

\* The value of a new coefficient (460-467).
newCoeff(dlt, bit) == IF ~bit THEN -dlt ELSE dlt

\* decodeBit of the sign of a new coefficient (461-472).
RfSign ==
  /\ pc = "rfSign"
  /\ \/ \E e \in ErrIn : /\ Apply(KFail(returnErr(e), zig, b, eobRun))
                        /\ blk' = [blk EXCEPT !.perr = e]
                        /\ UNCHANGED bits
     \/ \E bit \in BitIn :
          /\ bits' = "used"
          /\ blk' = [blk EXCEPT !.nsign = @ + 1, !.sign = IF bit THEN 1 ELSE 0]
          /\ Apply(startNZ(sc, b, zig, rf.val0, "loop", newCoeff(delta(sc), bit), eobRun))
  /\ UNCHANGED << progCoeffs, sc, dc, calls, visited, nScans, log >>
  /\ UNCHANGED << loopVars, frameVars >>

\* decodeBit of refineNonZeroes for the nonzero coefficient at zig (505-517).
NzBit ==
  /\ pc = "nzBit"
  /\ \/ \E e \in ErrIn : /\ Apply(KFail(returnErr(e), zig, b, eobRun))
                        /\ blk' = [blk EXCEPT !.perr = e]
                        /\ UNCHANGED bits
     \/ \E bit \in BitIn :
          LET u == unzig[zig + 1]
              bb == [b EXCEPT ![u] = refineCoeff(b[u], bit, delta(sc))]
          IN  /\ bits' = "used"
              /\ blk' = [blk EXCEPT !.ncorr = @ + 1, !.bit = IF bit THEN 1 ELSE 0]
              /\ Apply(startNZ(sc, bb, zig + 1, rf.nz, rf.caller, rf.z, eobRun))
  /\ UNCHANGED << progCoeffs, sc, dc, calls, visited, nScans, log >>
  /\ UNCHANGED << loopVars, frameVars >>

\* The save that writes the block to every entry of the component.
saveBlockAll(pcf, ci, idx, bb) == [pcf EXCEPT ![ci] = [k \in DOMAIN @ |-> bb]]

\* d.progCoeffs[compIndex][by*mxx*hi+bx] = b (298).
saveBlock(pcf, ci, idx, bb) == [pcf EXCEPT ![ci][idx] = bb]

\* Whether the block of frame component ci ends a cell (the switch at 313).
emits(d, ci) == ~d.progressive /\ ci = 2

\* The end of a block (297-309): the save of a progressive scan and the
\* next block, or the reconstructBlock of a sequential one.
FinishBlock ==
  /\ pc = "fin"
  /\ LET ci == sc.scan[i].compIndex
         hi == img.comp[ci].h
         pos == [bx |-> bx, by |-> by]
         nx == afterBlock(img, sc, i, j)
     IN  /\ progCoeffs' = IF img.progressive
                            THEN saveBlock(progCoeffs, ci, storeIndex(sc.mxx, hi, pos), b)
                            ELSE progCoeffs
         /\ IF reconstructs(img)
              THEN /\ pkg' = [pkg EXCEPT !.reconstructBlockBuf =
                                 reconstructBlock(img, b, pos, ci, 1).buf]
                   /\ \E c \in SamplesIn :
                        blk' = [blk EXCEPT !.c = c, !.lvl = levelShift(c),
                                           !.pix = Uint8(levelShift(c))]
                   /\ pc' = "tile"
                   /\ UNCHANGED << i, j >>
              ELSE /\ i' = nx.i /\ j' = nx.j /\ pc' = nx.pc
                   /\ UNCHANGED << pkg, blk >>
         /\ log' = LET run == IF blk.eobR >= 0 THEN Pow2(blk.eobR) + blk.eobE - 1
                              ELSE IF log.run > 0 THEN log.run - 1 ELSE 0
                    IN  [log EXCEPT !.run = run,
                                    !.ended = run = 0 /\ (blk.eobR >= 0 \/ log.run > 0),
                                    !.cut = IF blk.eobR >= 0 THEN FALSE ELSE @,
                                    !.refined =
                                      IF img.progressive /\ sc.ah # 0
                                        THEN @ \cup {<< ci, storeIndex(sc.mxx, hi, pos) >>}
                                        ELSE @,
                                    !.recon =
                                      IF reconstructs(img) THEN Append(@, << ci, bx, by >>)
                                      ELSE @]
  /\ UNCHANGED << my, mx, blockCount, mcu, expectedRST, bx, by >>
  /\ UNCHANGED << zig, b, rf, eobRun, err, bits, sc, dc, visited, nScans >>
  /\ UNCHANGED << img, inp, calls >>

\* The tile of a sequential scan (309-366): the block that reconstructBlock
\* returned, which is reconstructBlockBuf, goes into processSOSBuf; the Cr
\* block converts the cell into callbackBuf and calls the callback.
TileAssemble ==
  /\ pc = "tile"
  /\ LET ci == sc.scan[i].compIndex
         pos == [bx |-> bx, by |-> by]
         nx == afterBlock(img, sc, i, j)
         cell == tileWrite(pkg.processSOSBuf, ci, pos, pkg.reconstructBlockBuf)
     IN  /\ pkg' = [pkg EXCEPT !.processSOSBuf = cell,
                                !.callbackBuf = IF emits(img, ci) THEN cell ELSE @]
         /\ calls' = IF emits(img, ci) THEN Append(calls, callbackArgs(img, pos))
                     ELSE calls
         /\ log' = [log EXCEPT !.tiles = IF emits(img, ci) THEN Append(@, cell) ELSE @]
         /\ i' = nx.i /\ j' = nx.j /\ pc' = nx.pc
  /\ UNCHANGED << my, mx, blockCount, mcu, expectedRST, bx, by, progCoeffs >>
  /\ UNCHANGED << zig, b, rf, eobRun, err, bits, sc, dc, visited, nScans, blk >>
  /\ UNCHANGED << img, inp >>

\* The end of an MCU (369-370, 409-412).
McuEnd ==
  /\ pc = "mcu"
  /\ mcu' = mcu + 1
  /\ IF restartDue(img, sc, mcu + 1)
       THEN pc' = "rst1" /\ UNCHANGED << mx, my, i, j >>
       ELSE LET nx == afterMCU(sc, mx, my)
            IN  mx' = nx.mx /\ my' = nx.my /\ pc' = nx.pc /\ i' = 0 /\ j' = 0
  /\ log' = [log EXCEPT !.bytes = << >>]
  /\ UNCHANGED << blockCount, expectedRST, bx, by, progCoeffs, bits, sc, dc >>
  /\ UNCHANGED << zig, b, rf, eobRun, err, frameVars, calls, visited, nScans, blk >>

\* What the restart step resets (402-407).
rstReset(dcv, e) == [bits |-> "reset", dc |-> ZeroDC, eobRun |-> 0]

\* Lines 395-408 for the two bytes t0, t1 now in d.tmp.
RstCheck(t0, t1) ==
  IF ~rstAccepted(t0, t1, expectedRST)
    THEN /\ pc' = "failed"
         /\ err' = FormatError("bad RST marker")
         /\ log' = [log EXCEPT !.reads = @ + 1, !.bytes = Append(@, << t0, t1 >>)]
         /\ UNCHANGED << expectedRST, bits, dc, eobRun, mx, my, i, j >>
    ELSE LET nx == afterMCU(sc, mx, my)
             r == rstReset(dc, eobRun)
         IN  /\ expectedRST' = nextRST(expectedRST)
             /\ bits' = r.bits
             /\ dc' = r.dc
             /\ eobRun' = r.eobRun
             /\ mx' = nx.mx /\ my' = nx.my /\ pc' = nx.pc /\ i' = 0 /\ j' = 0
             /\ err' = nil
             /\ log' = [log EXCEPT !.reads = @ + 1, !.bytes = Append(@, << t0, t1 >>),
                                   !.done = @ + 1,
                                   !.dcs = [k \in 0 .. maxComponents - 1 |-> << >>],
                                   !.cut = @ \/ log.run > 0]

RstFail(e) ==
  /\ pc' = "failed"
  /\ err' = returnErr(e)
  /\ log' = [log EXCEPT !.reads = @ + 1, !.perr = e]
  /\ UNCHANGED << expectedRST, bits, dc, eobRun, mx, my, i, j >>

\* The first readFull of the restart step (373-389).
Rst1 ==
  /\ pc = "rst1"
  /\ \/ \E e \in ErrIn : RstFail(e)
     \/ \E t \in inp.rstPairs :
          IF isStuffing(t[1], t[2])
            THEN /\ pc' = "rst2"
                 /\ log' = [log EXCEPT !.reads = @ + 1, !.bytes = << t >>]
                 /\ UNCHANGED << expectedRST, bits, dc, eobRun, mx, my, i, j, err >>
            ELSE RstCheck(t[1], t[2])
  /\ UNCHANGED << zig, b, rf, progCoeffs, sc, blockCount, mcu, bx, by >>
  /\ UNCHANGED << calls, visited, nScans, blk, frameVars >>

\* The second readFull, after "\xff\x00" (390-393).
Rst2 ==
  /\ pc = "rst2"
  /\ \/ \E e \in ErrIn : RstFail(e)
     \/ \E t \in inp.rstPairs : RstCheck(t[1], t[2])
  /\ UNCHANGED << zig, b, rf, progCoeffs, sc, blockCount, mcu, bx, by >>
  /\ UNCHANGED << calls, visited, nScans, blk, frameVars >>

\* reconstructProgressiveImage (521-542), called once no scan is left:
\* reconstructBlock, in place, of the blocks inside the image of every
\* component that has a store; what reconstructBlock returns is dropped.
ReconstructProgressiveImage ==
  /\ pc = "idle" /\ nScans > 0 /\ log.accepted
  /\ img.progressive
  /\ LET todo == Flatten([ci \in 1 .. img.nComp |->
                    IF progCoeffs[ci - 1] = NilCoeffs THEN << >>
                    ELSE progressiveBlocks(img, ci - 1)])
         stride(ci) == mxxOf(img) * img.comp[ci].h
         at(ci, k) == {n \in 1 .. Len(todo) :
                         todo[n][1] = ci /\ todo[n][3] * stride(ci) + todo[n][2] = k}
     IN  /\ progCoeffs' =
              [ci \in 0 .. maxComponents - 1 |->
                 IF progCoeffs[ci] = NilCoeffs THEN NilCoeffs
                 ELSE [k \in DOMAIN progCoeffs[ci] |->
                         IF at(ci, k) = {} THEN progCoeffs[ci][k]
                         ELSE reconstructBlock(img, progCoeffs[ci][k],
                                               [bx |-> 0, by |-> 0], ci, 1).b]]
         /\ pkg' = IF todo = << >> THEN pkg
                   ELSE LET t == todo[Len(todo)]
                        IN  [pkg EXCEPT !.reconstructBlockBuf =
                               reconstructBlock(img, progCoeffs[t[1]][t[3] * stride(t[1]) + t[2]],
                                                [bx |-> t[2], by |-> t[3]], t[1], 1).buf]
         /\ log' = [log EXCEPT !.recon = todo]
  /\ pc' = "done"
  /\ calls' = << >>
  /\ UNCHANGED << my, mx, i, j, blockCount, mcu, expectedRST, bx, by >>
  /\ UNCHANGED << zig, b, rf, eobRun, err, bits, sc, dc, visited, nScans, blk >>
  /\ UNCHANGED << img, inp >>

\* A step of another decoder of the process, which decodes a one-block
\* grayscale image: its reconstructBlock writes reconstructBlockBuf, its
\* tile copies reconstructBlockBuf into the first luma quadrant of
\* processSOSBuf (53, 547: both are package variables).
OtherDecoder ==
  /\ inp.others
  /\ \E step \in {"reconstructBlock", "tile"} :
       LET pos == [bx |-> 0, by |-> 0]
       IN  pkg' = IF step = "reconstructBlock"
                    THEN [pkg EXCEPT !.reconstructBlockBuf =
                            reconstructBlock(img, ZeroBlock, pos, 0, 2).buf]
                    ELSE [pkg EXCEPT !.processSOSBuf =
                            tileWrite(@, 0, pos, pkg.reconstructBlockBuf)]
  /\ UNCHANGED << progCoeffs, eobRun, bits, sc, dc, calls, visited, nScans, blk, log >>
  /\ UNCHANGED << ctl, loopVars, img, inp >>

Next ==
  \/ ProcessSOS
  \/ BlockStart
  \/ DcHuff
  \/ DcExt
  \/ AcHuff
  \/ AcExt
  \/ AcBits
  \/ RfDcBit
  \/ RfHuff
  \/ RfBits
  \/ RfSign
  \/ NzBit
  \/ FinishBlock
  \/ TileAssemble
  \/ ReconstructProgressiveImage
  \/ OtherDecoder
  \/ McuEnd
  \/ Rst1
  \/ Rst2

\* ------------------------------------------------------------ the inputs
Comp(c, h, v) == [c |-> c, h |-> h, v |-> v, tq |-> 0]

Frame(comps, w, h, prog, ri) ==
  [nComp |-> Len(comps), comp |-> Arr(comps), width |-> w, height |-> h,
   progressive |-> prog, baseline |-> ~prog, ri |-> ri]

\* An SOS payload of n = 4 + 2*Len(sels) bytes: sels holds << Cs, Td, Ta >>
\* for each component, then Ss, Se and Ah/Al.
Hdr(sels, ss, se, ah, al) ==
  [n |-> 4 + 2 * Len(sels),
   tmp |-> Arr(<< Len(sels) >>
               \o Flatten([k \in 1 .. Len(sels) |->
                             << sels[k][1], sels[k][2] * 16 + sels[k][3] >>])
               \o << ss, se, ah * 16 + al >>)]

Gray == << Comp(1, 1, 1) >>

YCbCr420 == << Comp(1, 2, 2), Comp(2, 1, 1), Comp(3, 1, 1) >>

YCbCr444 == << Comp(1, 1, 1), Comp(2, 1, 1), Comp(3, 1, 1) >>

YCbCr422 == << Comp(1, 2, 1), Comp(2, 1, 1), Comp(3, 1, 1) >>

Sel(c) == << c, 0, 0 >>

AllSels(comps) == [k \in 1 .. Len(comps) |-> Sel(comps[k].c)]

RstPair(k) == << 255, rst0Marker + k >>

\* A small progressive image that takes every path of the entropy decoder
\* and of the second pass, and a one-block sequential image, decoded while
\* another decoder runs, that takes the tile path.
BaseInputs ==
  {[img |-> Frame(Gray, 16, 8, TRUE, 1),
    inp |-> [others |-> FALSE, truth |-> NoTruth,
             hdrs |-> << {Hdr(<< Sel(1) >>, 0, 0, 0, 1), Hdr(<< Sel(1) >>, 1, 1, 0, 1)},
                         {Hdr(<< Sel(1) >>, 0, 0, 1, 0), Hdr(<< Sel(1) >>, 1, 1, 1, 0)} >>,
             dcSyms |-> {1}, acSyms |-> {0, 1, 16}, exts |-> {1},
             bitsVals |-> {0}, bitVals |-> {TRUE}, errs |-> {},
             rstPairs |-> {<< 255, 0 >>, RstPair(0)}]],
   [img |-> Frame(Gray, 8, 8, FALSE, 0),
    inp |-> [others |-> TRUE, truth |-> NoTruth,
             hdrs |-> << {Hdr(<< Sel(1) >>, 0, 63, 0, 0)} >>,
             dcSyms |-> {0}, acSyms |-> {0}, exts |-> {0},
             bitsVals |-> {}, bitVals |-> {}, errs |-> {}, rstPairs |-> {}]]}

InitWith(F) ==
  /\ \E f \in F : img = f.img /\ inp = f.inp
  /\ progCoeffs = [ci \in 0 .. maxComponents - 1 |-> NilCoeffs]
  /\ eobRun = 0
  /\ bits = "reset"
  /\ sc = [nComp |-> 0, scan |-> ZeroScan, zigStart |-> 0, zigEnd |-> 0,
           ah |-> 0, al |-> 0, mxx |-> 0, myy |-> 0]
  /\ my = 0 /\ mx = 0 /\ i = 0 /\ j = 0
  /\ blockCount = 0 /\ mcu = 0 /\ expectedRST = rst0Marker
  /\ bx = 0 /\ by = 0
  /\ b = ZeroBlock
  /\ dc = ZeroDC
  /\ zig = 0
  /\ rf = rf0
  /\ pc = "idle"
  /\ err = nil
  /\ calls = << >>
  /\ visited = << >>
  /\ nScans = 0
  /\ blk = blk0
  /\ log = log0
  /\ pkg = pkg0

Init == InitWith(BaseInputs)

Spec == Init /\ [][Next]_vars

\* ------------------------------------------------ traversal and restarts
Widths == UNION {{8 * k - 7, 8 * k} : k \in 1 .. MaxWBlocks}

Heights == UNION {{8 * k - 7, 8 * k} : k \in 1 .. MaxHBlocks}

TravFrames == {Gray, YCbCr420, YCbCr444, YCbCr422}

\* The scans of a sequential image (one interleaved, or one per component)
\* and of a progressive one (an interleaved DC scan, a DC scan and an AC
\* scan per component).
TravHdrs(comps, prog) ==
  IF prog
    THEN {Hdr(AllSels(comps), 0, 0, 0, 0)}
         \cup {Hdr(<< Sel(comps[k].c) >>, 0, 0, 0, 0) : k \in 1 .. Len(comps)}
         \cup {Hdr(<< Sel(comps[k].c) >>, 1, 1, 0, 0) : k \in 1 .. Len(comps)}
    ELSE {Hdr(AllSels(comps), 0, 63, 0, 0)}
         \cup {Hdr(<< Sel(comps[k].c) >>, 0, 63, 0, 0) : k \in 1 .. Len(comps)}

RstPairs == {RstPair(k) : k \in 0 .. 8} \cup {<< 255, 0 >>, << 0, rst0Marker >>}

TravInputs ==
  {[img |-> Frame(comps, w, h, prog, ri),
    inp |-> [others |-> FALSE, truth |-> NoTruth, hdrs |-> << TravHdrs(comps, prog) >>,
             dcSyms |-> {1}, acSyms |-> {0}, exts |-> {1},
             bitsVals |-> {}, bitVals |-> {}, errs |-> {},
             rstPairs |-> RstPairs]] :
     comps \in TravFrames, w \in Widths, h \in Heights,
     prog \in BOOLEAN, ri \in 0 .. 2}

\* One row of MaxRestarts + 1 MCUs with a restart after each, scanned twice.
RstInputs ==
  {[img |-> Frame(Gray, 8 * (MaxRestarts + 1), 8, FALSE, 1),
    inp |-> [others |-> FALSE, truth |-> NoTruth, hdrs |-> [k \in 1 .. MaxScans |-> {Hdr(<< Sel(1) >>, 0, 63, 0, 0)}],
             dcSyms |-> {1}, acSyms |-> {0}, exts |-> {1},
             bitsVals |-> {}, bitVals |-> {}, errs |-> {},
             rstPairs |-> RstPairs]]}

InitTrav == InitWith(BaseInputs \cup TravInputs \cup RstInputs)

SpecTrav == InitTrav /\ [][Next]_vars

\* ------------------------------------------------------------ SOS headers
\* Selector lists of one to three components over the identifiers of the
\* frame and one identifier of no component.
SelLists ==
  LET Ids == {1, 2, 3, 9}
  IN  {<< Sel(a) >> : a \in Ids}
      \cup {<< Sel(a), Sel(c) >> : a \in Ids, c \in Ids}
      \cup {<< Sel(a), Sel(c), Sel(e) >> : a \in Ids, c \in Ids, e \in Ids}

\* Headers with every selector list and the fields of a first DC scan.
SelHdrs(prog) ==
  {Hdr(sels, 0, IF prog THEN 0 ELSE 63, 0, 0) : sels \in SelLists}

\* Headers with well-formed selector lists and spectral selection and
\* successive approximation fields around every limit of the checks.
ProgHdrs(comps) ==
  {Hdr(SubSeq(AllSels(comps), 1, k), ss, se, ah, al) :
     k \in 1 .. Len(comps), ss \in {0, 1, 2, 63, 64},
     se \in {0, 1, 2, 62, 63, 64, 255}, ah \in 0 .. 2, al \in 0 .. 2}

HdrInputs ==
  {[img |-> Frame(comps, 8, 8, prog, 0),
    inp |-> [others |-> FALSE, truth |-> NoTruth, hdrs |-> << SelHdrs(prog) \cup (IF prog THEN ProgHdrs(comps) ELSE {}) >>,
             dcSyms |-> {0}, acSyms |-> {0}, exts |-> {0},
             bitsVals |-> {}, bitVals |-> {FALSE},
             errs |-> IF Len(comps) = 1 THEN {ErrUnexpectedEOF} ELSE {},
             rstPairs |-> {}]] :
     comps \in {Gray, YCbCr420}, prog \in BOOLEAN}

InitHdr == InitWith(BaseInputs \cup HdrInputs)

SpecHdr == InitHdr /\ [][Next]_vars

\* ------------------------------------------------------ end-of-band runs
\* A sequential image of MaxWBlocks x MaxHBlocks blocks whose AC symbols are
\* end-of-band runs of 1, 2 to 3 and 4 to 7 blocks and 16-zero runs; a
\* progressive one of MaxWBlocks + 1 blocks with a first pass and a
\* refinement of coefficient 1; both with and without a restart after every
\* second MCU.
EobInputs ==
  {[img |-> Frame(Gray, 8 * MaxWBlocks, 8 * MaxHBlocks, FALSE, ri),
    inp |-> [others |-> FALSE, truth |-> NoTruth, hdrs |-> << {Hdr(<< Sel(1) >>, 0, 63, 0, 0)} >>,
             dcSyms |-> {0}, acSyms |-> {0, 16, 32, 240}, exts |-> {0},
             bitsVals |-> {0, 1, 3}, bitVals |-> {}, errs |-> {},
             rstPairs |-> {RstPair(k) : k \in 0 .. 7}]] : ri \in {0, 2}}
  \cup
  {[img |-> Frame(Gray, 8 * (MaxWBlocks + 1), 8, TRUE, ri),
    inp |-> [others |-> FALSE, truth |-> NoTruth, hdrs |-> << {Hdr(<< Sel(1) >>, 1, 1, 0, 1)}, {Hdr(<< Sel(1) >>, 1, 1, 1, 0)} >>,
             dcSyms |-> {}, acSyms |-> {0, 16, 32, 1, 240}, exts |-> {1},
             bitsVals |-> {0, 1, 3}, bitVals |-> {TRUE, FALSE}, errs |-> {},
             rstPairs |-> {RstPair(k) : k \in 0 .. 7}]] : ri \in {0, 2}}

InitEob == InitWith(BaseInputs \cup EobInputs)

SpecEob == InitEob /\ [][Next]_vars

\* ------------------------------------------------------ progressive scans
\* The scans of one band of a one-block image in any order: first passes of
\* the DC and of coefficients 1 to 2 at al = 0 and 1, and their
\* refinements to al = 0.
ProgScanHdrs ==
  {Hdr(<< Sel(1) >>, 0, 0, 0, 0), Hdr(<< Sel(1) >>, 0, 0, 0, 1),
   Hdr(<< Sel(1) >>, 0, 0, 1, 0),
   Hdr(<< Sel(1) >>, 1, 2, 0, 0), Hdr(<< Sel(1) >>, 1, 2, 0, 1),
   Hdr(<< Sel(1) >>, 1, 2, 1, 0)}

ProgInputs ==
  {[img |-> Frame(Gray, 8, 8, TRUE, 0),
    inp |-> [others |-> FALSE, truth |-> NoTruth, hdrs |-> [k \in 1 .. MaxScans + 1 |-> ProgScanHdrs],
             dcSyms |-> {0, 1}, acSyms |-> {0, 1, 17, 240}, exts |-> {-1, 0, 1},
             bitsVals |-> {}, bitVals |-> {TRUE, FALSE}, errs |-> {},
             rstPairs |-> {}]]}

InitProg == InitWith(BaseInputs \cup ProgInputs)

SpecProg == InitProg /\ [][Next]_vars

\* ------------------------------------------- successive approximation
\* A first pass of the band ss..se at al = k, then the refinements down to
\* al = 0.
Script(ss, se, k) ==
  [n \in 1 .. k + 1 |->
     {IF n = 1 THEN Hdr(<< Sel(1) >>, ss, se, 0, k)
      ELSE Hdr(<< Sel(1) >>, ss, se, k - n + 2, k - n + 1)}]

Coefs == -MaxCoef .. MaxCoef

\* Blocks with a DC value only, and blocks with values at the zig-zag
\* positions 1, 2 and 18 only.
DCTruths == {[ZeroBlock EXCEPT ![0] = v] : v \in Coefs}

ACTruths ==
  {[ZeroBlock EXCEPT ![unzig[2]] = v1, ![unzig[3]] = v2, ![unzig[19]] = v3] :
     v1 \in Coefs, v2 \in Coefs, v3 \in Coefs}

EncodedInput(t, ss, se, k) ==
  [img |-> Frame(Gray, 8, 8, TRUE, 0),
   inp |-> [others |-> FALSE, truth |-> t, hdrs |-> Script(ss, se, k),
            dcSyms |-> {}, acSyms |-> {}, exts |-> {},
            bitsVals |-> {}, bitVals |-> {}, errs |-> {}, rstPairs |-> {}]]

EncodedInputs ==
  {EncodedInput(t, 0, 0, k) : t \in DCTruths, k \in 0 .. MaxAl}
  \cup {EncodedInput(t, 1, 18, k) : t \in ACTruths, k \in 0 .. MaxAl}

InitEnc == InitWith(BaseInputs \cup EncodedInputs)

SpecEnc == InitEnc /\ [][Next]_vars

\* -------------------------------------------------- failing primitives
\* The errors a primitive may return: the end of the stream, another error
\* of the byte source, and a format error of the Huffman decoder.
PrimitiveErrors ==
  {ErrUnexpectedEOF, ErrClosedPipe, FormatError("bad Huffman code")}

\* A sequential 4:2:0 image of two MCUs and a progressive image of two
\* blocks (DC first pass, AC first pass, AC refinement), with a restart
\* after every MCU; every call of a primitive may fail.
ErrInputs ==
  {[img |-> Frame(YCbCr420, 32, 16, FALSE, 1),
    inp |-> [others |-> FALSE, truth |-> NoTruth,
             hdrs |-> << {Hdr(AllSels(YCbCr420), 0, 63, 0, 0)} >>,
             dcSyms |-> {0, 1}, acSyms |-> {0, 1}, exts |-> {1},
             bitsVals |-> {}, bitVals |-> {}, errs |-> PrimitiveErrors,
             rstPairs |-> {<< 255, 0 >>, RstPair(0)}]],
   [img |-> Frame(Gray, 16, 8, TRUE, 1),
    inp |-> [others |-> FALSE, truth |-> NoTruth,
             hdrs |-> << {Hdr(<< Sel(1) >>, 0, 0, 0, 1)},
                         {Hdr(<< Sel(1) >>, 1, 2, 0, 1)},
                         {Hdr(<< Sel(1) >>, 1, 2, 1, 0)} >>,
             dcSyms |-> {1}, acSyms |-> {0, 1, 16}, exts |-> {1},
             bitsVals |-> {0}, bitVals |-> {TRUE, FALSE}, errs |-> PrimitiveErrors,
             rstPairs |-> {<< 255, 0 >>, RstPair(0)}]]}

InitErr == InitWith(BaseInputs \cup ErrInputs)

\* --------------------------------------------------------- DC first pass
\* A sequential 4:2:0 image of one MCU, or of two with a restart between
\* them, and the interleaved DC scan at al = 1 of a progressive one of one
\* MCU; size categories 0, 1 and 17.
DcInputs ==
  {[img |-> Frame(YCbCr420, 16 * np[1], 16, np[2], np[1] - 1),
    inp |-> [others |-> FALSE, truth |-> NoTruth,
             hdrs |-> << {IF np[2] THEN Hdr(AllSels(YCbCr420), 0, 0, 0, 1)
                          ELSE Hdr(AllSels(YCbCr420), 0, 63, 0, 0)} >>,
             dcSyms |-> {0, 1, 17}, acSyms |-> {0}, exts |-> {-1, 0, 1},
             bitsVals |-> {}, bitVals |-> {}, errs |-> {},
             rstPairs |-> {RstPair(0)}]] :
     np \in {<< 1, FALSE >>, << 1, TRUE >>, << 2, FALSE >>}}

\* ------------------------------------------------------------ the tiles
\* Sequential 4:2:0 images of 1, 6 and 6 MCUs in one interleaved scan,
\* without and with a restart after every second MCU.
TileInputs ==
  {[img |-> Frame(YCbCr420, wh[1], wh[2], FALSE, ri),
    inp |-> [others |-> FALSE, truth |-> NoTruth,
             hdrs |-> << {Hdr(AllSels(YCbCr420), 0, 63, 0, 0)} >>,
             dcSyms |-> {1}, acSyms |-> {0}, exts |-> {1},
             bitsVals |-> {}, bitVals |-> {}, errs |-> {},
             rstPairs |-> {RstPair(k) : k \in 0 .. 2}]] :
     wh \in {<< 16, 16 >>, << 17, 33 >>, << 33, 17 >>}, ri \in {0, 2}}

\* A sequential 4:2:0 image of one row of MCUs whose last MCU begins at
\* the pixel column 2^15.
WideInput ==
  [img |-> Frame(YCbCr420, Pow2(15) + 1, 8, FALSE, 0),
   inp |-> [others |-> FALSE, truth |-> NoTruth,
            hdrs |-> << {Hdr(AllSels(YCbCr420), 0, 63, 0, 0)} >>,
            dcSyms |-> {1}, acSyms |-> {0}, exts |-> {1},
            bitsVals |-> {}, bitVals |-> {}, errs |-> {},
            rstPairs |-> {}]]

\* The blocks of the MCU m of the first row of an interleaved 4:2:0 scan,
\* and those of the MCUs before the MCU n, in the order of the scan.
McuBlocks(m) ==
  << << 0, 2 * m, 0 >>, << 0, 2 * m + 1, 0 >>, << 0, 2 * m, 1 >>,
     << 0, 2 * m + 1, 1 >>, << 1, m, 0 >>, << 2, m, 0 >> >>

\* The first m blocks of the row.
BlocksBefore(m) == [k \in 1 .. m |-> McuBlocks((k - 1) \div 6)[((k - 1) % 6) + 1]]

Ones(n) == [k \in 1 .. n |-> 1]

Min(x, y) == IF x < y THEN x ELSE y

\* The state of processSOS after n MCUs and the first k blocks (k < 6) of
\* the next one, 6 * n + k > 0, in the first row of the one scan of f, an
\* interleaved scan of a sequential 4:2:0 image without restarts in which
\* every block is the DC delta 1 and the end of block: the state that the
\* steps from InitWith({f}) reach after 37 * n + 6 * k + 1 steps.
AfterBlocks(f, n, k) ==
  LET h == CHOOSE x \in f.inp.hdrs[1] : TRUE
      hdr == parseSOS(f.img, h.n, h.tmp, nil)
      blocks == BlocksBefore(6 * n + k)
      last == blocks[6 * n + k]
      ny == 4 * n + Min(k, 4)
      nb == n + (IF k >= 5 THEN 1 ELSE 0)
      cellOf(m) == [y |-> [q \in 0 .. 3 |->
                             sample(1, 0, [bx |-> 2 * m + (q % 2), by |-> q \div 2])],
                    cb |-> sample(1, 1, [bx |-> m, by |-> 0]),
                    cr |-> sample(1, 2, [bx |-> m, by |-> 0])]
      before == IF n = 0 THEN cell0 ELSE cellOf(n - 1)
      now == [y |-> [q \in 0 .. 3 |-> IF q < k THEN cellOf(n).y[q] ELSE before.y[q]],
              cb |-> IF k >= 5 THEN cellOf(n).cb ELSE before.cb,
              cr |-> before.cr]
  IN  [img |-> f.img, inp |-> f.inp,
       progCoeffs |-> [ci \in 0 .. maxComponents - 1 |-> NilCoeffs],
       eobRun |-> 0, bits |-> "used",
       sc |-> [nComp |-> hdr.nComp, scan |-> hdr.scan,
               zigStart |-> hdr.zigStart, zigEnd |-> hdr.zigEnd,
               ah |-> hdr.ah, al |-> hdr.al,
               mxx |-> mxxOf(f.img), myy |-> myyOf(f.img)],
       my |-> 0, mx |-> n,
       i |-> IF k < 4 THEN 0 ELSE k - 3, j |-> IF k < 4 THEN k ELSE 0,
       blockCount |-> 0, mcu |-> n,
       expectedRST |-> rst0Marker, bx |-> last[2], by |-> last[3],
       b |-> [ZeroBlock EXCEPT ![0] = IF last[1] = 0 THEN ny
                                      ELSE IF last[1] = 1 THEN nb ELSE n],
       dc |-> [ZeroDC EXCEPT ![0] = ny, ![1] = nb, ![2] = n],
       zig |-> 1, rf |-> rf0, pc |-> "block", err |-> nil,
       calls |-> [m \in 1 .. n |-> callbackArgs(f.img, [bx |-> m - 1, by |-> 0])],
       visited |-> blocks, nScans |-> 1,
       blk |-> [blk0 EXCEPT !.huffDC = 1, !.huffAC = 1, !.dcDelta = 1, !.dcSym = 1,
                            !.eobR = 0, !.sym = 0, !.lvl = 128, !.pix = 128],
       log |-> [log0 EXCEPT !.hdr = h, !.accepted = TRUE, !.ended = TRUE,
                            !.dcs = [c \in 0 .. maxComponents - 1 |->
                                       IF c = 0 THEN Ones(ny)
                                       ELSE IF c = 1 THEN Ones(nb)
                                       ELSE IF c = 2 THEN Ones(n) ELSE << >>],
                            !.recon = blocks,
                            !.tiles = [m \in 1 .. n |-> cellOf(m - 1)]],
       pkg |-> [processSOSBuf |-> now,
                reconstructBlockBuf |-> sample(1, last[1], [bx |-> last[2], by |-> last[3]]),
                callbackBuf |-> before]]

\* The scan of f taken up after n MCUs and k blocks.
InitAfterBlocks(f, n, k) ==
  LET r == AfterBlocks(f, n, k)
  IN  /\ img = r.img /\ inp = r.inp /\ progCoeffs = r.progCoeffs /\ eobRun = r.eobRun
      /\ bits = r.bits /\ sc = r.sc /\ my = r.my /\ mx = r.mx
      /\ i = r.i /\ j = r.j /\ blockCount = r.blockCount /\ mcu = r.mcu
      /\ expectedRST = r.expectedRST /\ bx = r.bx /\ by = r.by /\ b = r.b
      /\ dc = r.dc /\ zig = r.zig /\ rf = r.rf /\ pc = r.pc
      /\ err = r.err /\ calls = r.calls /\ visited = r.visited /\ nScans = r.nScans
      /\ blk = r.blk /\ log = r.log /\ pkg = r.pkg

\* The MCUs of the wide image before its last one, whose Cr block alone is
\* still to come when the scan is taken up.
WideStart == Pow2(11)

InitWide ==
  InitWith(BaseInputs \cup TileInputs) \/ InitAfterBlocks(WideInput, WideStart, 5)

SpecWide == InitWide /\ [][Next]_vars

\* The whole scan of the wide image.
InitWideWhole == InitWith({WideInput})

SpecWideWhole == InitWideWhole /\ [][Next]_vars

\* ------------------------------------------------------------- the clip
\* The samples around the two ends of the byte range and the ends of int32
\* (but for -2^31).
ClipSamples ==
  {-2147483647, -257, -256, -129, -128, -127, -1, 0, 1, 126, 127, 128, 129, 255,
   256, 383, 384, 2147483647}

\* A sequential one-block image whose inverse DCT leaves any of them.
ClipInputs ==
  {[img |-> Frame(Gray, 8, 8, FALSE, 0),
    inp |-> [others |-> FALSE, truth |-> NoTruth,
             hdrs |-> << {Hdr(<< Sel(1) >>, 0, 63, 0, 0)} >>,
             dcSyms |-> {0}, acSyms |-> {0}, exts |-> {0},
             bitsVals |-> {}, bitVals |-> {}, errs |-> {}, rstPairs |-> {},
             samples |-> ClipSamples]]}

InitClip == InitWith(BaseInputs \cup ClipInputs)

SpecClip == InitClip /\ [][Next]_vars

\* ------------------------------------------------------------ the store
\* Progressive frames of one component with every pair of sampling factors
\* 1..4, and of three components in the six ratios of makeImg (13-49), in
\* several sizes; one DC scan, of one component or interleaved, in which
\* every block has the delta 1.
GeoFrames ==
  {<< Comp(1, h, v) >> : h \in 1 .. 4, v \in 1 .. 4}
  \cup {<< Comp(1, hv[1], hv[2]), Comp(2, 1, 1), Comp(3, 1, 1) >> :
          hv \in {<< 1, 1 >>, << 1, 2 >>, << 2, 1 >>, << 2, 2 >>, << 4, 1 >>, << 4, 2 >>}}
  \cup {<< Comp(1, 2, 2), Comp(2, 2, 2), Comp(3, 2, 2) >>,
        << Comp(1, 4, 2), Comp(2, 2, 1), Comp(3, 2, 1) >>}

GeoSizes == {<< 1, 1 >>, << 9, 8 >>, << 33, 9 >>, << 17, 17 >>}

GeoInputs ==
  {[img |-> Frame(comps, wh[1], wh[2], TRUE, 0),
    inp |-> [others |-> FALSE, truth |-> NoTruth,
             hdrs |-> << {Hdr(AllSels(comps), 0, 0, 0, 0)}
                         \cup {Hdr(<< Sel(comps[k].c) >>, 0, 0, 0, 0) :
                                 k \in 1 .. Len(comps)} >>,
             dcSyms |-> {1}, acSyms |-> {}, exts |-> {1},
             bitsVals |-> {}, bitVals |-> {}, errs |-> {}, rstPairs |-> {}]] :
     comps \in GeoFrames, wh \in GeoSizes}

InitGeo == InitWith(BaseInputs \cup GeoInputs)

SpecGeo == InitGeo /\ [][Next]_vars

InitTile == InitWith(BaseInputs \cup TileInputs)

SpecTile == InitTile /\ [][Next]_vars

InitDc == InitWith(BaseInputs \cup DcInputs)

\* ------------------------------------------------------ sampling factors
\* Frames of ratio 4:2:0, 4:1:0 with a luma component of 4x4 blocks, and
\* 4:4:4 with components of 4x2 blocks.
YCbCr410 == << Comp(1, 4, 4), Comp(2, 1, 2), Comp(3, 1, 2) >>

YCbCr444Wide == << Comp(1, 4, 2), Comp(2, 4, 2), Comp(3, 4, 2) >>

SampFrames == {YCbCr420, YCbCr410, YCbCr444Wide}

\* The DC scans of one, two or three components of a progressive frame.
SampHdrs(comps) ==
  {Hdr(<< Sel(comps[k].c) >>, 0, 0, 0, 0) : k \in 1 .. 3}
  \cup {Hdr(<< Sel(comps[k].c), Sel(comps[l].c) >>, 0, 0, 0, 0) :
          k \in 1 .. 2, l \in 2 .. 3}
  \cup {Hdr(AllSels(comps), 0, 0, 0, 0)}

SampInputs ==
  {[img |-> Frame(comps, 8, 8, TRUE, 0),
    inp |-> [others |-> FALSE, truth |-> NoTruth, hdrs |-> << SampHdrs(comps) >>,
             dcSyms |-> {0}, acSyms |-> {0}, exts |-> {0},
             bitsVals |-> {}, bitVals |-> {}, errs |-> {}, rstPairs |-> {}]] :
     comps \in SampFrames}

InitSamp == InitWith(BaseInputs \cup SampInputs)

\* ------------------------------------------------------- segment lengths
\* A segment of n bytes that announces c components: the selectors of the
\* first components of the frame with tables 0, then zeros.
RawHdr(n, c) ==
  [n |-> n,
   tmp |-> [k \in 0 .. n - 1 |->
              IF k = 0 THEN c
              ELSE IF k <= 2 * c /\ k % 2 = 1 THEN (k + 1) \div 2
              ELSE 0]]

LenHdrs == {RawHdr(n, c) : n \in 1 .. 14, c \in 0 .. 4}

\* No frame, a frame of one component and one of three, sequential and
\* progressive.
LenInputs ==
  {[img |-> Frame(comps, 8, 8, prog, 0),
    inp |-> [others |-> FALSE, truth |-> NoTruth, hdrs |-> << LenHdrs >>,
             dcSyms |-> {0}, acSyms |-> {0}, exts |-> {0},
             bitsVals |-> {}, bitVals |-> {}, errs |-> {}, rstPairs |-> {}]] :
     comps \in {<< >>, Gray, YCbCr420}, prog \in BOOLEAN}

InitLen == InitWith(BaseInputs \cup LenInputs)

SpecLen == InitLen /\ [][Next]_vars

\* ------------------------------------------- baseline scan parameters
\* Sequential images whose segments end with any three bytes.
SeqHdrInputs ==
  {[img |-> Frame(comps, 8, 8, FALSE, 0),
    inp |-> [others |-> FALSE, truth |-> NoTruth, hdrs |-> << ProgHdrs(comps) >>,
             dcSyms |-> {0}, acSyms |-> {0}, exts |-> {0},
             bitsVals |-> {}, bitVals |-> {FALSE}, errs |-> {}, rstPairs |-> {}]] :
     comps \in {Gray, YCbCr420}}

InitSeqHdr == InitWith(BaseInputs \cup SeqHdrInputs)

\* ----------------------------------------------------------- two decoders
\* A sequential 4:2:0 image of one MCU decoded while another decoder of the
\* process decodes its own image.
SharedInputs ==
  {[img |-> Frame(YCbCr420, 16, 16, FALSE, 0),
    inp |-> [others |-> TRUE, truth |-> NoTruth,
             hdrs |-> << {Hdr(AllSels(YCbCr420), 0, 63, 0, 0)} >>,
             dcSyms |-> {0}, acSyms |-> {0}, exts |-> {0},
             bitsVals |-> {}, bitVals |-> {}, errs |-> {}, rstPairs |-> {}]]}

InitShared == InitWith(BaseInputs \cup SharedInputs)

\* ----------------------------------------------------- AC first passes
\* A progressive block with a first pass of coefficients 3 to 4 and one of
\* coefficients 1 to 20, and a sequential block; the symbols are the end of
\* band, (0, 2), (3, 1) and (15, 0), the values 1 and -2.
AcInputs ==
  {[img |-> Frame(Gray, 8, 8, TRUE, 0),
    inp |-> [others |-> FALSE, truth |-> NoTruth,
             hdrs |-> << {Hdr(<< Sel(1) >>, 3, 4, 0, 1)},
                         {Hdr(<< Sel(1) >>, 1, 20, 0, 1)} >>,
             dcSyms |-> {}, acSyms |-> {0, 2, 49, 240}, exts |-> {1, -2},
             bitsVals |-> {}, bitVals |-> {}, errs |-> {}, rstPairs |-> {}]],
   [img |-> Frame(Gray, 8, 8, FALSE, 0),
    inp |-> [others |-> FALSE, truth |-> NoTruth,
             hdrs |-> << {Hdr(<< Sel(1) >>, 0, 63, 0, 0)} >>,
             dcSyms |-> {0}, acSyms |-> {0, 49, 240}, exts |-> {0, 1},
             bitsVals |-> {}, bitVals |-> {}, errs |-> {}, rstPairs |-> {}]]}

InitAc == InitWith(BaseInputs \cup AcInputs)

\* ------------------------------------------------------ AC refinements
\* A progressive block with a first pass of coefficients 1 to 4 at al = 1
\* and their refinement to al = 0; the symbols are the end of band, the
\* insertions (0, 1), (1, 1), (2, 1) and (0, 2), which no refinement has.
RefInputs ==
  {[img |-> Frame(Gray, 8, 8, TRUE, 0),
    inp |-> [others |-> FALSE, truth |-> NoTruth,
             hdrs |-> << {Hdr(<< Sel(1) >>, 1, 4, 0, 1)},
                         {Hdr(<< Sel(1) >>, 1, 4, 1, 0)} >>,
             dcSyms |-> {}, acSyms |-> {0, 1, 17, 33, 2}, exts |-> {-1, 1, 2},
             bitsVals |-> {}, bitVals |-> {TRUE, FALSE}, errs |-> {},
             rstPairs |-> {}]],
   \* two blocks, the band 1 to 3, the end-of-band symbols of the runs 1
   \* and 2
   [img |-> Frame(Gray, 16, 8, TRUE, 0),
    inp |-> [others |-> FALSE, truth |-> NoTruth,
             hdrs |-> << {Hdr(<< Sel(1) >>, 1, 3, 0, 1)},
                         {Hdr(<< Sel(1) >>, 1, 3, 1, 0)} >>,
             dcSyms |-> {}, acSyms |-> {0, 16, 1, 17}, exts |-> {1},
             bitsVals |-> {0}, bitVals |-> {TRUE, FALSE}, errs |-> {},
             rstPairs |-> {}]]}

InitRef == InitWith(BaseInputs \cup RefInputs)

SpecRef == InitRef /\ [][Next]_vars

SpecAc == InitAc /\ [][Next]_vars

SpecShared == InitShared /\ [][Next]_vars

SpecSeqHdr == InitSeqHdr /\ [][Next]_vars

SpecSamp == InitSamp /\ [][Next]_vars

SpecDc == InitDc /\ [][Next]_vars

SpecErr == InitErr /\ [][Next]_vars

\* ----------------------------------------------------------------- claims
CeilDiv(a, n) == (a + n - 1) \div n

IsPrefix(p, q) == Len(p) <= Len(q) /\ SubSeq(q, 1, Len(p)) = p

\* processSOS has been called and its header was accepted.
InScan == nScans > 0 /\ log.accepted

\* processSOS has returned nil.
Returned == InScan /\ pc = "idle"

Is420(d) ==
  /\ d.nComp = 3
  /\ d.comp[0].h = 2 /\ d.comp[0].v = 2
  /\ \A k \in 1 .. 2 : d.comp[k].h = 1 /\ d.comp[k].v = 1

\* The 16x16 cells of the image in raster order, as callback arguments.
ExpectedCells(d) ==
  LET cols == CeilDiv(d.width, 16)
      rows == CeilDiv(d.height, 16)
  IN  [k \in 1 .. rows * cols |->
         [x |-> 16 * ((k - 1) % cols), y |-> 16 * ((k - 1) \div cols),
          w |-> 16, h |-> 16, iw |-> d.width, ih |-> d.height]]

\* C1: a sequential image that processSOS decodes without error has had the
\* callback invoked exactly once for each 16x16 cell, in raster order, with
\* extent 16x16 and the image's width and height, whatever the number of
\* frame components.
C1_OncePerCellInRasterOrder ==
  (Returned /\ ~img.progressive) => calls = ExpectedCells(img)

\* The blocks of component ci among the visited ones, as << bx, by >>.
BlocksOf(ci) ==
  LET sel == SelectSeq(visited, LAMBDA v : v[1] = ci)
  IN  [k \in 1 .. Len(sel) |-> << sel[k][2], sel[k][3] >>]

\* The order in which an interleaved scan visits the blocks: MCU rows, MCUs,
\* the scan's components in header order, the hi*vi blocks of each.
InterleavedOrder(d, s) ==
  LET mxx == CeilDiv(d.width, 8 * d.comp[0].h)
      myy == CeilDiv(d.height, 8 * d.comp[0].v)
  IN  Flatten([m \in 1 .. mxx * myy |->
        Flatten([ii \in 1 .. s.nComp |->
          LET ci == s.scan[ii - 1].compIndex
              hi == d.comp[ci].h
              vi == d.comp[ci].v
          IN  [jj \in 1 .. hi * vi |->
                 << ci, hi * ((m - 1) % mxx) + ((jj - 1) % hi),
                    vi * ((m - 1) \div mxx) + ((jj - 1) \div hi) >>]])])

\* C5: an interleaved scan visits the MCUs row by row, the components in
\* header order inside an MCU, block j of a component at
\* (hi*mx + j mod hi, vi*my + j div hi), and skips none; the luma blocks of a
\* 4:2:0 image of 24x16 pixels are visited as (0,0),(1,0),(0,1),(1,1),(2,0),
\* (3,0),(2,1),(3,1).
C5_InterleavedOrder ==
  (InScan /\ sc.nComp > 1) =>
    /\ IsPrefix(visited, InterleavedOrder(img, sc))
    /\ pc = "idle" => visited = InterleavedOrder(img, sc)
    /\ (pc = "idle" /\ Is420(img) /\ img.width = 24 /\ img.height = 16) =>
         BlocksOf(0) = << << 0, 0 >>, << 1, 0 >>, << 0, 1 >>, << 1, 1 >>,
                          << 2, 0 >>, << 3, 0 >>, << 2, 1 >>, << 3, 1 >> >>

C5_Witness ==
  /\ Returned /\ sc.nComp = 3
  /\ Is420(img) /\ img.width = 24 /\ img.height = 16
  /\ Len(visited) = 12

\* The order in which a non-interleaved scan of component ci visits the
\* blocks: the raster order of a grid mxx*hi wide, without the blocks whose
\* top-left pixel is outside the image.
RasterOrder(d, ci) ==
  LET mxx == CeilDiv(d.width, 8 * d.comp[0].h)
      myy == CeilDiv(d.height, 8 * d.comp[0].v)
      q == mxx * d.comp[ci].h
      all == [k \in 1 .. mxx * myy * d.comp[ci].h * d.comp[ci].v |->
                << ci, (k - 1) % q, (k - 1) \div q >>]
  IN  SelectSeq(all, LAMBDA v : 8 * v[2] < d.width /\ 8 * v[3] < d.height)

C6_Order ==
  (InScan /\ sc.nComp = 1) =>
    /\ IsPrefix(visited, RasterOrder(img, sc.scan[0].compIndex))
    /\ pc = "idle" => visited = RasterOrder(img, sc.scan[0].compIndex)
    /\ (pc = "idle" /\ Is420(img) /\ img.width = 24 /\ img.height = 16
          /\ sc.scan[0].compIndex = 0) =>
         BlocksOf(0) = << << 0, 0 >>, << 1, 0 >>, << 2, 0 >>,
                          << 0, 1 >>, << 1, 1 >>, << 2, 1 >> >>

\* A turn of the block loop of a non-interleaved scan that lands on a block
\* outside the image.
C6_SkipStep ==
  /\ pc = "block" /\ sc.nComp = 1
  /\ blockCount' = blockCount + 1
  /\ 8 * bx' >= img.width \/ 8 * by' >= img.height

\* C6: a non-interleaved scan visits the blocks in raster order over a grid
\* mxx*hi wide; a block whose top-left pixel is outside the image is skipped,
\* which calls no entropy primitive, changes no DC predictor, eobRun or store
\* entry and emits nothing; the luma scan of a 4:2:0 image of 24x16 pixels
\* decodes (0,0),(1,0),(2,0),(0,1),(1,1),(2,1).
C6_NonInterleavedOrder ==
  [][/\ C6_Order'
     /\ C6_SkipStep =>
          /\ UNCHANGED << dc, eobRun, progCoeffs, calls, bits, visited, b, err >>
          /\ pc' \in {"block", "mcu"}]_vars

C6_Witness ==
  /\ Returned /\ sc.nComp = 1 /\ sc.scan[0].compIndex = 0
  /\ Is420(img) /\ img.width = 24 /\ img.height = 16
  /\ Len(visited) = 6 /\ blockCount = 8

\* A step of the restart code, and one that found its marker.
RstStep == pc \in {"rst1", "rst2"}

RstOK == RstStep /\ pc' \in {"block", "idle"}

\* The restart step read two bytes in this step.
RstRead == RstStep /\ Len(log'.bytes) = Len(log.bytes) + 1

\* C3: with restartInterval r > 0 the restart step runs after the m-th MCU
\* iff m mod r = 0 and m < mxx*myy; after it every DC predictor is 0, eobRun
\* is 0 and the bit reader is reset, so the first DC coefficient after it is
\* its own delta shifted by al; the predictors are reset nowhere else inside
\* a scan, and with r = 0 no restart bytes are read.
C3_RestartInterval ==
  [][LET mxx == CeilDiv(img.width, 8 * img.comp[0].h)
         myy == CeilDiv(img.height, 8 * img.comp[0].v)
         m == my * mxx + mx + 1
         ci == sc.scan[i].compIndex
     IN  /\ pc = "mcu" =>
              (pc' = "rst1" <=> (img.ri > 0 /\ m % img.ri = 0 /\ m < mxx * myy))
         /\ RstOK => dc' = ZeroDC /\ eobRun' = 0 /\ bits' = "reset"
         /\ (pc = "dcExt" /\ pc' # "failed" /\ Len(log'.dcs[ci]) = 1) =>
              b'[0] = blk'.dcDelta * Pow2(sc.al)
         /\ (pc = "dcExt" /\ pc' # "failed") =>
              /\ dc'[ci] = dc[ci] + blk'.dcDelta
              /\ \A k \in 0 .. maxComponents - 1 : k # ci => dc'[k] = dc[k]
         /\ (pc \notin {"idle", "dcExt"} /\ ~RstOK) => dc' = dc
         /\ img.ri = 0 => log'.reads = 0]_vars

C3_Witness ==
  /\ InScan /\ img.ri = 2 /\ log.done = 1 /\ mcu = 2
  /\ pc = "acHuff" /\ Len(log.dcs[sc.scan[i].compIndex]) = 1
  /\ b[0] = 1

\* C4: the k-th restart step of a scan accepts only 0xFF, RST(k mod 8); one
\* leading 0xFF 0x00 is skipped by reading two more bytes; any mismatch
\* returns FormatError and no further block is decoded.
C4_RestartMarkers ==
  [][LET last == log'.bytes[Len(log'.bytes)]
         want == << 255, rst0Marker + (log.done % 8) >>
     IN  /\ RstRead =>
              IF pc = "rst1" /\ last = << 255, 0 >>
                THEN pc' = "rst2" /\ log'.done = log.done
              ELSE IF last = want
                THEN RstOK /\ log'.done = log.done + 1
              ELSE pc' = "failed" /\ err'.kind = "FormatError"
         /\ RstStep => Len(log'.bytes) <= 2
         /\ pc # "failed"
         /\ (RstStep /\ pc' = "failed") => UNCHANGED << visited, calls, progCoeffs >>]_vars

C4_Witness ==
  /\ nScans = 2 /\ log.done = 9 /\ pc = "block"
  /\ log.bytes = << << 255, 0 >>, RstPair(0) >>

\* ------------------------------------------------------ the header checks
\* The bytes of an SOS payload, by their names in the standard.
Ns(h) == h.tmp[0]

Cs(h, k) == h.tmp[1 + 2 * k]

Td(h, k) == h.tmp[2 + 2 * k] \div 16

Ta(h, k) == h.tmp[2 + 2 * k] % 16

Ss(h) == h.tmp[1 + 2 * Ns(h)]

Se(h) == h.tmp[2 + 2 * Ns(h)]

Ah(h) == h.tmp[3 + 2 * Ns(h)] \div 16

Al(h) == h.tmp[3 + 2 * Ns(h)] % 16

\* The segment has the length its component count asks for, and no more
\* components than the frame.
LengthOK(d, h) ==
  /\ d.nComp # 0
  /\ h.n >= 6 /\ h.n <= 4 + 2 * d.nComp /\ h.n % 2 = 0
  /\ h.n = 4 + 2 * Ns(h)

\* Every selector names a frame component and no two name the same one.
SelectorsOK(d, h) ==
  /\ \A k \in 0 .. Ns(h) - 1 : \E c \in 0 .. d.nComp - 1 : d.comp[c].c = Cs(h, k)
  /\ \A k, l \in 0 .. Ns(h) - 1 :
       k # l => ~\E c \in 0 .. d.nComp - 1 : d.comp[c].c = Cs(h, k) /\ d.comp[c].c = Cs(h, l)

TablesOK(d, h) ==
  \A k \in 0 .. Ns(h) - 1 :
    /\ Td(h, k) <= (IF d.baseline THEN 1 ELSE 3)
    /\ Ta(h, k) <= (IF d.baseline THEN 1 ELSE 3)

RECURSIVE SumHV(_, _, _)
SumHV(d, h, k) ==
  IF k = 0 THEN 0
  ELSE LET c == CHOOSE c \in 0 .. d.nComp - 1 : d.comp[c].c = Cs(h, k - 1)
       IN  d.comp[c].h * d.comp[c].v + SumHV(d, h, k - 1)

SamplingOK(d, h) == d.nComp > 1 => SumHV(d, h, Ns(h)) <= 10

\* The header was read and passes every check before those of the
\* progression fields.
ReachesProgression(d, h) ==
  /\ log.rerr = nil
  /\ LengthOK(d, h) /\ SelectorsOK(d, h) /\ TablesOK(d, h) /\ SamplingOK(d, h)

ProgressionAllowed(h) ==
  /\ 0 <= Ss(h) /\ Ss(h) <= Se(h) /\ Se(h) <= 63
  /\ Ss(h) = 0 => Se(h) = 0
  /\ Ss(h) # 0 => Ns(h) = 1
  /\ Ah(h) = 0 \/ Ah(h) = Al(h) + 1

\* processSOS returned FormatError before it decoded anything.
RejectedEarly ==
  /\ ~log.accepted /\ pc = "failed" /\ err.kind = "FormatError"
  /\ visited = << >> /\ blk = blk0

\* C7: for a progressive image, a header that reaches the progression checks
\* is accepted if and only if 0 <= Ss <= Se <= 63, Ss = 0 implies Se = 0,
\* Ss # 0 implies one scan component, and Ah = 0 or Ah = Al + 1; every
\* other header returns FormatError before any block is decoded.
C7_ProgressionFields ==
  (nScans > 0 /\ img.progressive /\ ReachesProgression(img, log.hdr)) =>
    IF ProgressionAllowed(log.hdr)
      THEN /\ log.accepted
           /\ sc.zigStart = Ss(log.hdr) /\ sc.zigEnd = Se(log.hdr)
           /\ sc.ah = Ah(log.hdr) /\ sc.al = Al(log.hdr)
      ELSE RejectedEarly

\* A two-component scan with Ss = 1 was rejected.
C7_Witness ==
  /\ nScans = 1 /\ img.progressive /\ ReachesProgression(img, log.hdr)
  /\ Ns(log.hdr) = 2 /\ Ss(log.hdr) = 1 /\ Se(log.hdr) = 63
  /\ Ah(log.hdr) = 0
  /\ RejectedEarly

\* C8: a header with a selector of no frame component, or with the same
\* frame component selected twice, returns FormatError; the components of an
\* accepted scan are pairwise distinct indexes of frame components, those
\* the selectors name.
C8_ComponentSelectors ==
  (nScans > 0 /\ log.rerr = nil /\ LengthOK(img, log.hdr)) =>
    /\ ~SelectorsOK(img, log.hdr) => RejectedEarly
    /\ log.accepted =>
         /\ sc.nComp = Ns(log.hdr)
         /\ \A k \in 0 .. sc.nComp - 1 :
              /\ sc.scan[k].compIndex \in 0 .. img.nComp - 1
              /\ img.comp[sc.scan[k].compIndex].c = Cs(log.hdr, k)
         /\ \A k, l \in 0 .. sc.nComp - 1 :
              k # l => sc.scan[k].compIndex # sc.scan[l].compIndex

\* A three-component header that names the second component twice was
\* rejected.
C8_Witness ==
  /\ nScans = 1 /\ img.nComp = 3 /\ log.rerr = nil /\ LengthOK(img, log.hdr)
  /\ Ns(log.hdr) = 3
  /\ Cs(log.hdr, 0) = 1 /\ Cs(log.hdr, 1) = 2 /\ Cs(log.hdr, 2) = 2
  /\ RejectedEarly /\ err = FormatError("repeated component selector")

\* ------------------------------------------------------ end-of-band runs
\* A block has been decoded to its end: what follows is its save or its
\* reconstruction.
BlockDone == InScan /\ pc = "fin"

\* The block just decoded is the last of visited, at its place in the order
\* of the scan.
TraversalAdvanced ==
  /\ visited # << >>
  /\ visited[Len(visited)] = << sc.scan[i].compIndex, bx, by >>
  /\ IsPrefix(visited, IF sc.nComp = 1 THEN RasterOrder(img, sc.scan[0].compIndex)
                        ELSE InterleavedOrder(img, sc))

\* The block decoded an end-of-band symbol with run nibble r and extra bits
\* e: the run is 2^r + e and the block is its first.
EobSymbolCounted ==
  blk.eobR >= 0 =>
    /\ blk.huffAC >= 1
    /\ eobRun = Pow2(blk.eobR) + blk.eobE - 1

\* The block is one of the run of an earlier block: no AC symbol, eobRun
\* one lower.
TakenByRun ==
  /\ blk.huffAC = 0 /\ blk.eobR = -1
  /\ blk.eobIn = log.run
  /\ eobRun = blk.eobIn - 1

EobRunInRange == eobRun \in 0 .. 65535

\* C2 as stated: after an end-of-band symbol of run n = 2^r + e in block k,
\* each of the next n-1 visited blocks of the scan decodes no AC Huffman
\* symbol and lowers eobRun by one, the block after those decodes an AC
\* symbol again, the traversal advances, eobRun stays within 16 bits.
C2_EobRunAccounting ==
  /\ EobRunInRange
  /\ BlockDone =>
       /\ TraversalAdvanced
       /\ EobSymbolCounted
       /\ log.run > 0 => TakenByRun
       /\ log.ended => blk.huffAC >= 1

\* C2, amended: the same for the blocks of the run that come before the
\* next restart step; a restart step ends the run, and the first block
\* after it decodes an AC symbol again.
C2_EobRunUntilRestart ==
  /\ EobRunInRange
  /\ BlockDone =>
       /\ TraversalAdvanced
       /\ EobSymbolCounted
       /\ (log.run > 0 /\ ~log.cut) => TakenByRun
       /\ (log.ended \/ log.cut) => blk.huffAC >= 1

\* The fourth and last block of a run of 4 in a refinement scan.
C2_Witness ==
  /\ BlockDone /\ sc.ah = 1 /\ img.ri = 0
  /\ Len(visited) = 4
  /\ log.run = 1 /\ ~log.cut /\ TakenByRun /\ eobRun = 0

\* ---------------------------------------------------- the coefficient store
\* The natural positions of the band of the scan.
BandOf(s) == {unzig[z + 1] : z \in s.zigStart .. s.zigEnd}

\* The store of component ci keeps its blocks: none is added or dropped.
SameStore(ci) ==
  /\ progCoeffs[ci] # NilCoeffs
  /\ DOMAIN progCoeffs'[ci] = DOMAIN progCoeffs[ci]

\* Every nonzero coefficient of block k of component ci keeps its sign and
\* does not lose magnitude in this step.
NoCoefficientLost(ci, k) ==
  \A u \in 0 .. blockSize - 1 :
    LET old == progCoeffs[ci][k][u]
        new == progCoeffs'[ci][k][u]
    IN  old # 0 => Sign(new) = Sign(old) /\ Abs(new) >= Abs(old)

\* C9 as stated: a block that a refinement scan has written is not reset by
\* any later step of any accepted scan: each of its nonzero coefficients
\* stays nonzero, keeps its sign and does not lose magnitude, and the
\* component's store is not reallocated.
C9_NeverReset ==
  [][pc' # "done" =>
       \A r \in log.refined : SameStore(r[1]) /\ NoCoefficientLost(r[1], r[2])]_vars

\* What a refinement scan does to block k of component ci when it saves it:
\* nothing outside its band; inside, a nonzero coefficient keeps its sign,
\* an AC magnitude does not shrink, the DC value does not shrink.
RefinementSave(ci, k) ==
  \A u \in 0 .. blockSize - 1 :
    LET old == progCoeffs[ci][k][u]
        new == progCoeffs'[ci][k][u]
    IN  /\ u \notin BandOf(sc) => new = old
        /\ old # 0 => /\ Sign(new) = Sign(old)
                       /\ IF u = 0 THEN new >= old ELSE Abs(new) >= Abs(old)

\* What a first pass does: nothing outside its band; inside, it replaces the
\* DC value, and replaces an AC coefficient by a nonzero value or leaves it.
FirstPassSave(ci, k) ==
  \A u \in 0 .. blockSize - 1 :
    LET old == progCoeffs[ci][k][u]
        new == progCoeffs'[ci][k][u]
    IN  /\ u \notin BandOf(sc) => new = old
        /\ (u # 0 /\ old # 0) => new # 0

\* C9, amended: the store of a component with a refined block is never
\* reallocated; a refined block changes only when a scan saves it; a later
\* refinement scan keeps the sign of every nonzero coefficient, does not
\* shrink an AC magnitude and does not lower the DC value; a later first
\* pass replaces coefficients of its own band only.
C9_RefinedBlocksKept ==
  [][pc' # "done" =>
     \A r \in log.refined :
       /\ SameStore(r[1])
       /\ progCoeffs'[r[1]][r[2]] # progCoeffs[r[1]][r[2]] =>
            /\ pc = "fin"
            /\ r = << sc.scan[i].compIndex,
                      storeIndex(sc.mxx, img.comp[sc.scan[i].compIndex].h,
                                 [bx |-> bx, by |-> by]) >>
            /\ IF sc.ah # 0 THEN RefinementSave(r[1], r[2])
                ELSE FirstPassSave(r[1], r[2])]_vars

\* Coefficient 1 of the block, decoded as 1 by a first pass, has been
\* corrected by two refinement scans.
C9_Witness ==
  /\ Returned /\ nScans = 3 /\ sc.ah = 1 /\ sc.zigStart = 1
  /\ << 0, 0 >> \in log.refined
  /\ progCoeffs[0][0][unzig[2]] = 3

\* ------------------------------------------- successive approximation
\* The decoder has taken every scan of the script.
AllScansDone == Returned /\ nScans = Len(inp.hdrs)

\* The values the encoder gives are values that receiveExtend delivers for
\* the size decoded before.
EncodedInRange ==
  /\ pc = "dcExt" => InExtRange(rf.val1, EncDCDiff)
  /\ pc = "acExt" => InExtRange(rf.val1, PointAC(zig, sc.al))

\* C10: a first pass of a band at al = k and the refinements at k-1, ..., 0,
\* fed the stream of an encoder of the block inp.truth, leave in the store
\* the coefficients of inp.truth, which are what the single pass at al = 0
\* (the script with k = 0) leaves for the same block.
C10_Convergence ==
  Encoded =>
    /\ pc # "failed"
    /\ EncodedInRange
    /\ AllScansDone =>
         \A z \in sc.zigStart .. sc.zigEnd : progCoeffs[0][0][unzig[z + 1]] = Truth(z)

\* Three passes have rebuilt -3, 1 and 4 at the positions 1, 2 and 18.
C10_Witness ==
  /\ Encoded /\ AllScansDone /\ nScans = 3 /\ sc.zigStart = 1
  /\ Truth(1) = -3 /\ Truth(2) = 1 /\ Truth(18) = 4
  /\ progCoeffs[0][0][unzig[2]] = -3
  /\ progCoeffs[0][0][unzig[3]] = 1
  /\ progCoeffs[0][0][unzig[19]] = 4

\* --------------------------------------------------------- the second pass
\* reconstructProgressiveImage has returned.
SecondPassDone == pc = "done"

\* The blocks inside the image of every component that has a store, by
\* component, row by row.
StoredBlocks ==
  Flatten([ci \in 1 .. img.nComp |->
    IF progCoeffs[ci - 1] = NilCoeffs THEN << >>
    ELSE LET cols == CeilDiv(img.width * img.comp[ci - 1].h, 8 * img.comp[0].h)
             rows == CeilDiv(img.height * img.comp[ci - 1].v, 8 * img.comp[0].v)
         IN  [k \in 1 .. rows * cols |-> << ci - 1, (k - 1) % cols, (k - 1) \div cols >>]])

\* C11: after the scans of a progressive image, the second pass reconstructs
\* each stored block of each component and drives it through the tile
\* assembler, so that the callback is invoked for the cells of the image.
C11_SecondPassEmitsCells ==
  SecondPassDone =>
    /\ log.recon = StoredBlocks
    /\ calls = ExpectedCells(img)

\* The store entry of the block that processSOS is at.
CurrentEntry ==
  storeIndex(sc.mxx, img.comp[sc.scan[i].compIndex].h, [bx |-> bx, by |-> by])

\* C12: during the scans of a progressive image processSOS only stores
\* coefficients: the end of every decoded block writes the block to its
\* store entry; reconstructBlock is not called, processSOSBuf and the other
\* buffers are not written, the callback is not invoked.
C12_ProgressiveOnlyStores ==
  [][(img.progressive /\ pc' # "done") =>
       /\ pc' # "tile"
       /\ pkg' = pkg
       /\ calls' = << >>
       /\ log'.recon = << >> /\ log'.tiles = << >>
       /\ pc = "fin" =>
            /\ progCoeffs'[sc.scan[i].compIndex][CurrentEntry] = b
            /\ pc' \in {"block", "mcu"}]_vars

\* Three progressive scans have stored a DC coefficient and coefficient 1.
C12_Witness ==
  /\ img.progressive /\ Returned /\ nScans = 3
  /\ progCoeffs[0][0][0] = -2 /\ progCoeffs[0][0][unzig[2]] = 2
  /\ pkg = pkg0 /\ calls = << >>

\* The last symbol decoded was a run/size symbol of a first pass whose run
\* moves the position past zigEnd (268-271).
RunPastZigEnd == blk.over

TooManyCoefficients == pc = "failed" /\ err = FormatError("too many coefficients")

\* C13: a symbol that would place a coefficient at a position greater than
\* zigEnd makes the decode fail with FormatError "too many coefficients",
\* in the first pass (a run/size symbol whose run passes zigEnd) as in a
\* refinement (the position after refineNonZeroes is past zigEnd).
C13_TooManyCoefficients ==
  /\ RunPastZigEnd => TooManyCoefficients
  /\ (pc = "fin" /\ sc.ah # 0 /\ sc.zigStart # 0) => zig <= sc.zigEnd + 1

\* What the primitive that failed in this call of processSOS returned:
\* readFull of the header, readFull of the restart step, or an entropy
\* primitive of the current block.
PrimitiveError ==
  IF log.rerr # nil THEN log.rerr
  ELSE IF log.perr # nil THEN log.perr
  ELSE blk.perr

\* C14: an error returned by readFull, decodeHuffman, receiveExtend,
\* decodeBits or decodeBit is what processSOS returns, unchanged; the step
\* of the failing call writes no store entry and emits no tile, and after
\* it processSOS takes no step: no primitive is called, no entry is written,
\* no tile is emitted, nothing is read again.
C14_ErrorsPropagate ==
  [][/\ PrimitiveError' # nil =>
          /\ pc' = "failed" /\ err' = PrimitiveError'
          /\ progCoeffs' = progCoeffs
          /\ log'.tiles = log.tiles /\ log'.recon = log.recon
          /\ calls' = IF log'.rerr # nil THEN << >> ELSE calls
     /\ pc = "failed" =>
          UNCHANGED << pc, err, progCoeffs, calls, log, blk, bits, nScans, visited >>]_vars

\* The second MCU of the sequential image fails with the error of the byte
\* source after the first tile was emitted.
C14_Witness ==
  /\ pc = "failed" /\ err = ErrClosedPipe /\ blk.perr = ErrClosedPipe
  /\ ~img.progressive /\ Len(calls) = 1 /\ mx = 1

RECURSIVE SumSeq(_)
SumSeq(q) == IF q = << >> THEN 0 ELSE Head(q) + SumSeq(Tail(q))

\* A first pass that starts at the DC coefficient.
DcFirstPass == InScan /\ sc.ah = 0 /\ sc.zigStart = 0

\* The end of a block that was decoded.
DcBlockEnd == DcFirstPass /\ pc = "fin" /\ ~blk.skipped

OtherGeometryAtTiles ==
  InScan /\ ~img.progressive /\ ~Is420(img) /\ log.recon # << >>

\* C16: a baseline scan of an image whose geometry is not 4:2:0 (4:4:4,
\* 4:2:2, one component) that reaches the tile assembly makes processSOS
\* return UnsupportedError; no tile is assembled or emitted.
C16_UnsupportedGeometry ==
  OtherGeometryAtTiles =>
    \/ pc = "tile" /\ log.tiles = << >>
    \/ pc = "failed" /\ err.kind = "UnsupportedError" /\ log.tiles = << >>

\* The header has passed the checks of its length, selectors and tables.
ReachesSampling ==
  /\ nScans > 0 /\ log.rerr = nil
  /\ LengthOK(img, log.hdr) /\ SelectorsOK(img, log.hdr) /\ TablesOK(img, log.hdr)

SamplingRejected ==
  pc = "failed" /\ err = FormatError("total sampling factors too large")

\* The sum of h*v over the components of the scan.
ScanHV == SumHV(img, log.hdr, Ns(log.hdr))

\* C17: the limit of 10 on the sum of h*v over the scan's components is
\* applied exactly when more than one component is in the scan: such a scan
\* with a sum above 10 returns FormatError, and a scan of one component is
\* never rejected for its sampling factors, whatever the number of frame
\* components.
C17_SamplingLimit ==
  ReachesSampling =>
    /\ (Ns(log.hdr) > 1 /\ ScanHV > 10) => (SamplingRejected /\ RejectedEarly)
    /\ (Ns(log.hdr) = 1 \/ ScanHV <= 10) => ~SamplingRejected

\* The component count the segment announces: its first byte.
AnnouncedCount == log.hdr.tmp[0]

\* C18 as stated: an accepted segment has between 1 and the frame's number
\* of components and is 4 + 2*count bytes long for a non-progressive image,
\* 4 + 2*count + 3 for a progressive one.
C18_LengthPlusThree ==
  (nScans > 0 /\ log.accepted) =>
    /\ AnnouncedCount \in 1 .. img.nComp
    /\ log.hdr.n = 4 + 2 * AnnouncedCount + (IF img.progressive THEN 3 ELSE 0)

\* C18, amended: a segment is accepted only if it announces between 1 and
\* the frame's number of components and is exactly 4 + 2*count bytes long,
\* for a progressive image as for a non-progressive one, and a segment of
\* that length with the first components of the frame and zero fields is
\* accepted; a segment of any other length returns FormatError before any
\* block is decoded, as does a scan of a decoder with no frame components.
C18_LengthExact ==
  (nScans = 1 /\ log.hdr \in LenHdrs) =>
    LET fits == /\ img.nComp # 0
                /\ AnnouncedCount \in 1 .. img.nComp
                /\ log.hdr.n = 4 + 2 * AnnouncedCount
    IN  /\ log.accepted <=> fits
        /\ ~fits => RejectedEarly
        /\ img.nComp = 0 => err = FormatError("missing SOF marker")

\* A progressive scan of three components in a segment of 10 bytes was
\* accepted.
C18_Witness ==
  /\ nScans = 1 /\ log.hdr \in LenHdrs /\ log.accepted
  /\ img.progressive /\ AnnouncedCount = 3 /\ log.hdr.n = 10

\* C19: every scan of a non-progressive image has zigStart = 0, zigEnd = 63,
\* ah = 0 and al = 0 whatever the last three bytes of the segment; these
\* bytes are no reason for rejection (a segment that passes the checks of
\* length, selectors, tables and sampling factors is accepted) and no step
\* of the refinement is taken.
C19_BaselineParameters ==
  (nScans > 0 /\ ~img.progressive) =>
    /\ ReachesProgression(img, log.hdr) => log.accepted
    /\ log.accepted =>
         /\ sc.zigStart = 0 /\ sc.zigEnd = blockSize - 1 /\ sc.ah = 0 /\ sc.al = 0
         /\ pc \notin {"rfDcBit", "rfHuff", "rfBits", "rfSign", "nzBit"}
         /\ blk.ncorr = 0 /\ blk.nsign = 0

\* The block of a sequential scan whose segment ends with 64, 255, 0x21 was
\* decoded.
C19_Witness ==
  /\ ~img.progressive /\ Returned /\ Len(visited) = 1
  /\ Ss(log.hdr) = 64 /\ Se(log.hdr) = 255 /\ Ah(log.hdr) = 2 /\ Al(log.hdr) = 1

\* The samples of a cell.
SamplesOf(cell) == {cell.y[q] : q \in 0 .. 3} \cup {cell.cb, cell.cr}

\* C20: the tile cell buffer and the block reconstruction buffer belong to
\* one decoder: with the processSOS calls of two decoders interleaved, no
\* tile this decoder emits holds a sample the other decoder wrote, and the
\* block that reconstructBlock returned to this decoder is still in the
\* buffer when the tile assembly copies it.
C20_ExclusiveBuffers ==
  /\ \A t \in 1 .. Len(log.tiles) : \A x \in SamplesOf(log.tiles[t]) : x.dec # 2
  /\ pc = "tile" =>
       pkg.reconstructBlockBuf = sample(1, sc.scan[i].compIndex, [bx |-> bx, by |-> by])

\* ------------------------------------------------------- AC first pass
\* The run and the size of the last AC symbol decoded.
RunOf(sym) == sym \div 16

\* The step is one of this decoder, not of another decoder of the process.
OwnStep == pkg' = pkg \/ pc' # pc

SymSize(sym) == sym % 16

RefinePcs == {"rfHuff", "rfBits", "rfSign", "nzBit"}

\* A step of the refinement of an AC band by this decoder.
RefinementStep ==
  InScan /\ sc.ah # 0 /\ sc.zigStart # 0 /\ pc \in RefinePcs /\ OwnStep

\* The zero and the nonzero coefficients of bb at the positions lo .. hi - 1.
Zeros(bb, lo, hi) == Cardinality({k \in lo .. hi - 1 : bb[unzig[k + 1]] = 0})

NonZeros(bb, lo, hi) == Cardinality({k \in lo .. hi - 1 : bb[unzig[k + 1]] # 0})

\* The step makes the coefficient at natural index u nonzero.
Inserted(u) == b[u] = 0 /\ b'[u] # 0

\* The step ends a symbol with flag 1 without an error.
EndsInsertion ==
  /\ pc = "rfSign" \/ (pc = "nzBit" /\ rf.caller = "loop" /\ rf.z # 0)
  /\ pc' \notin {"nzBit", "failed"}

\* What holds of every insertion whatever is counted on the way: the flag
\* is 1, one coefficient is inserted when the symbol ends, its value is
\* 1 << al with the sign of the decoded bit, and a flag other than 0 and 1
\* returns FormatError.
InsertionValue ==
  /\ \A u \in 0 .. blockSize - 1 :
       Inserted(u) =>
         /\ SymSize(blk'.sym) = 1 /\ EndsInsertion
         /\ b'[u] = IF blk'.sign = 1 THEN Pow2(sc.al) ELSE -Pow2(sc.al)
  /\ EndsInsertion => \E u \in 0 .. blockSize - 1 : Inserted(u)
  /\ (pc = "rfHuff" /\ blk'.huffAC # blk.huffAC /\ SymSize(blk'.sym) \notin {0, 1}) =>
       (pc' = "failed" /\ err' = FormatError("unexpected Huffman code"))

\* C22 as stated: the new coefficient goes to the zero position reached
\* after skipping s coefficients that are already nonzero.
C22_InsertAfterNonZeros ==
  [][RefinementStep =>
       /\ InsertionValue
       /\ \A u \in 0 .. blockSize - 1 :
            Inserted(u) =>
              \E p \in blk'.from .. sc.zigEnd :
                u = unzig[p + 1] /\ NonZeros(b, blk'.from, p) = RunOf(blk'.sym)]_vars

\* C22, amended: in an AC refinement symbol with flag 1 and count s the new
\* coefficient is inserted at the position of the (s + 1)-th coefficient
\* that is zero, counted from the current position; the nonzero coefficients
\* on the way are passed and not counted; the inserted value is 1 << al,
\* positive when the sign bit is 1 and negative when it is 0; a coefficient
\* that is nonzero is never overwritten by an insertion; a flag other than
\* 0 and 1 returns FormatError.
C22_InsertAfterZeros ==
  [][RefinementStep =>
       /\ InsertionValue
       /\ \A u \in 0 .. blockSize - 1 :
            /\ Inserted(u) =>
                 \E p \in blk'.from .. sc.zigEnd :
                   u = unzig[p + 1] /\ Zeros(b, blk'.from, p) = RunOf(blk'.sym)
            /\ (b[u] # 0 /\ b'[u] # b[u]) => (pc = "nzBit" /\ u = unzig[zig + 1])]_vars

\* The symbol (1, 1) at position 1 with sign bit 0 has skipped the zero at
\* position 1, passed the nonzero coefficient at position 2 and inserted -1
\* at position 3.
C22_Witness ==
  /\ InScan /\ sc.ah = 1 /\ sc.zigStart = 1 /\ blk.sym = 17 /\ blk.from = 1
  /\ blk.huffAC = 1 /\ blk.ncorr = 1 /\ blk.sign = 0 /\ zig = 4
  /\ b[unzig[2]] = 0 /\ b[unzig[3]] # 0 /\ b[unzig[4]] = -1

\* The coefficient of the current block at the zig-zag position z.
CoefAt(z) == b[unzig[z + 1]]

\* The step decodes a correction bit.
CorrectionBit == blk'.ncorr = blk.ncorr + 1

\* C23: in an AC refinement a correction bit is decoded only for a
\* coefficient that is nonzero, one for each such coefficient between the
\* position of the symbol and the insertion point; with the bit 1 the
\* coefficient moves by delta away from zero, with the bit 0 it keeps its
\* value; no step changes the sign of a coefficient, lowers its magnitude or
\* makes a nonzero coefficient zero.
C23_CorrectionBits ==
  [][RefinementStep =>
       /\ blk'.ncorr # blk.ncorr => (pc = "nzBit" /\ CorrectionBit)
       /\ pc = "nzBit" => CoefAt(zig) # 0
       /\ (pc = "nzBit" /\ CorrectionBit) =>
            b'[unzig[zig + 1]] =
              IF blk'.bit = 0 THEN CoefAt(zig)
              ELSE IF CoefAt(zig) > 0 THEN CoefAt(zig) + Pow2(sc.al)
              ELSE CoefAt(zig) - Pow2(sc.al)
       /\ EndsInsertion =>
            blk'.ncorr - blk'.ncorrAt = NonZeros(b', blk'.from, zig' - 1)
       /\ \A u \in 0 .. blockSize - 1 :
            b[u] # 0 =>
              /\ Sign(b'[u]) = Sign(b[u])
              /\ Abs(b'[u]) >= Abs(b[u])
              /\ b'[u] # b[u] => (pc = "nzBit" /\ u = unzig[zig + 1])]_vars

\* The walk of a symbol has passed the coefficient -2 at position 1 with
\* the bit 1 and the coefficient 2 at position 2 with the bit 0.
C23_Witness ==
  /\ InScan /\ sc.ah = 1 /\ sc.zigStart = 1 /\ blk.huffAC = 1 /\ blk.from = 1
  /\ blk.ncorr = 2 /\ blk.bit = 0 /\ CoefAt(1) = -3 /\ CoefAt(2) = 2

\* ------------------------------------------- end of band in a refinement
\* The refinement of an AC band has come to the end of a block.
RefinedBlockEnd == InScan /\ sc.ah # 0 /\ sc.zigStart # 0 /\ pc = "fin"

\* The block as it was loaded: the store is written after "fin".
LoadedBlock == progCoeffs[sc.scan[i].compIndex][CurrentEntry]

\* C24: an AC refinement block entered with eobRun > 0 decodes no Huffman
\* symbol and inserts nothing; it decodes one correction bit for each
\* nonzero coefficient of the band and none elsewhere, and leaves eobRun
\* lower by one. After an end-of-band symbol decoded inside the block the
\* correction bits are those of the nonzero coefficients from the position
\* of the symbol to zigEnd.
C24_EndOfBandRefinement ==
  /\ (InScan /\ sc.ah # 0 /\ sc.zigStart # 0 /\ pc = "nzBit") =>
       (zig \in sc.zigStart .. sc.zigEnd /\ CoefAt(zig) # 0)
  /\ (RefinedBlockEnd /\ blk.eobIn > 0) =>
       /\ blk.huffAC = 0 /\ blk.nsign = 0
       /\ \A u \in 0 .. blockSize - 1 : (b[u] = 0) <=> (LoadedBlock[u] = 0)
       /\ blk.ncorr = NonZeros(b, sc.zigStart, sc.zigEnd + 1)
       /\ eobRun = blk.eobIn - 1
  /\ (RefinedBlockEnd /\ blk.eobAt >= 0) =>
       /\ blk.eobIn = 0
       /\ blk.from = blk.eobAt
       /\ blk.ncorr - blk.ncorrAt = NonZeros(b, blk.eobAt, sc.zigEnd + 1)
       /\ \A z \in blk.eobAt .. sc.zigEnd : (CoefAt(z) = 0) <=> (LoadedBlock[unzig[z + 1]] = 0)
       /\ eobRun = Pow2(blk.eobR) + blk.eobE - 1

\* The second block of a run of 2: entered with eobRun = 1, two nonzero
\* coefficients corrected, the zero one left.
C24_Witness ==
  /\ RefinedBlockEnd /\ blk.eobIn = 1 /\ eobRun = 0 /\ blockCount = 2
  /\ blk.ncorr = 2 /\ CoefAt(1) = 3 /\ CoefAt(2) = 0 /\ CoefAt(3) = 2

\* An end-of-band symbol at position 2, after an insertion at position 1:
\* the one nonzero coefficient from there on is corrected.
C24_WitnessInside ==
  /\ RefinedBlockEnd /\ blk.eobAt = 2 /\ blk.nsign = 1 /\ blk.huffAC = 2
  /\ blk.ncorr = 1 /\ CoefAt(1) = -1 /\ CoefAt(2) = 0 /\ CoefAt(3) = 3

\* -------------------------------------------------------- DC refinement
\* A step of this decoder in a block of a DC refinement.
DcRefinementStep ==
  InScan /\ sc.ah # 0 /\ sc.zigStart = 0 /\ OwnStep /\ pc \in {"block", "rfDcBit", "fin"}

\* x with the bit of weight 2^al set, for x of either sign in two's
\* complement.
WithBit(x, al) == IF x % Pow2(al + 1) >= Pow2(al) THEN x ELSE x + Pow2(al)

\* C25: a block of a DC refinement decodes one bit and no Huffman symbol;
\* with the bit 1 coefficient 0 gets the bit 1 << al set, with the bit 0
\* the block is as it was loaded; no other coefficient changes, the DC
\* predictors and eobRun are left alone; a negative coefficient 0 stays
\* negative, one that is not stays so, and a nonzero one stays nonzero.
C25_DcRefinement ==
  [][DcRefinementStep =>
       /\ dc' = dc /\ eobRun' = eobRun
       /\ (pc = "block" /\ ~blk'.skipped) =>
            (pc' = "rfDcBit" /\ b' = LoadedBlock' /\ blk'.ncorr = 0)
       /\ (pc = "rfDcBit" /\ pc' # "failed") =>
            /\ pc' = "fin"
            /\ blk'.ncorr = 1 /\ blk'.huffDC = 0 /\ blk'.huffAC = 0 /\ blk'.nsign = 0
            /\ b' = [b EXCEPT ![0] = IF blk'.bit = 1 THEN WithBit(b[0], sc.al) ELSE b[0]]
            /\ (b[0] < 0) <=> (b'[0] < 0)
            /\ b[0] # 0 => b'[0] # 0
       /\ pc = "fin" => (blk.ncorr = 1 /\ blk.huffDC = 0 /\ blk.huffAC = 0)]_vars

\* The bit 1 of a refinement at al = 0 set in the coefficient -2.
C25_Witness ==
  /\ InScan /\ sc.ah # 0 /\ sc.zigStart = 0 /\ sc.al = 0 /\ pc = "fin"
  /\ blk.bit = 1 /\ LoadedBlock[0] = -2 /\ b[0] = -1

\* ------------------------------------------------------- the 4:2:0 tiles
\* A step of an interleaved scan of a sequential 4:2:0 image.
Tile420Step ==
  /\ InScan /\ ~img.progressive /\ Is420(img) /\ sc.nComp = 3
  /\ ~inp.others /\ pc \notin {"idle", "failed"}

\* The processSOSBuf indexes of the pixels of quadrant q, plane 0.
QuadrantPixels(q) ==
  {((8 * (q \div 2) + r) * 16 + (8 * (q % 2) + c)) * 3 :
     r \in 0 .. 7, c \in 0 .. 7}

\* The cell of the MCU (mxv, myv): its four luma blocks, its Cb and its Cr
\* block, all of this decoder.
CellOf(mxv, myv) ==
  [y |-> [q \in 0 .. 3 |->
            sample(1, 0, [bx |-> 2 * mxv + (q % 2), by |-> 2 * myv + (q \div 2)])],
   cb |-> sample(1, 1, [bx |-> mxv, by |-> myv]),
   cr |-> sample(1, 2, [bx |-> mxv, by |-> myv])]

\* The copy of the block at "tile": a luma block fills its own quadrant,
\* sample for sample; a chroma sample fills the 2x2 pixels it covers.
TileCopy ==
  LET ci == sc.scan[i].compIndex
      q == 2 * (by - 2 * my) + (bx - 2 * mx)
      here == sample(1, ci, [bx |-> bx, by |-> by])
  IN  /\ pkg.reconstructBlockBuf = here
      /\ ci = 0 =>
           /\ q \in 0 .. 3 /\ q = j
           /\ pkg'.processSOSBuf = [pkg.processSOSBuf EXCEPT !.y[q] = here]
           /\ {w[1] : w \in lumaWrites(bx, by)} = QuadrantPixels(q)
           /\ \A w \in lumaWrites(bx, by) :
                w[1] = ((8 * (q \div 2) + (w[2] \div 8)) * 16 + (8 * (q % 2) + (w[2] % 8))) * 3
      /\ ci \in {1, 2} =>
           /\ bx = mx /\ by = my
           /\ pkg'.processSOSBuf =
                IF ci = 1 THEN [pkg.processSOSBuf EXCEPT !.cb = here]
                ELSE [pkg.processSOSBuf EXCEPT !.cr = here]
           /\ chromaWrites(bx, by, ci) =
                {<< (r * 16 + c) * 3 + ci, (r \div 2) * 8 + (c \div 2) >> :
                   r \in 0 .. 15, c \in 0 .. 15}

\* The callback of the step at "tile": none but after the Cr block, then
\* one, the mcu-th of the scan, with the cell of the MCU, and the MCU ends.
TileCallback(x, y) ==
  LET ci == sc.scan[i].compIndex
  IN  /\ ci # 2 => (calls' = calls /\ pc' = "block")
      /\ ci = 2 =>
           /\ Len(calls) = mcu
           /\ Len(calls') = mcu + 1
           /\ SubSeq(calls', 1, mcu) = calls
           /\ calls'[mcu + 1].x = x /\ calls'[mcu + 1].y = y
           /\ calls'[mcu + 1].w = 16 /\ calls'[mcu + 1].h = 16
           /\ pkg'.processSOSBuf = CellOf(mx, my)
           /\ pkg'.callbackBuf = CellOf(mx, my)
           /\ log'.tiles = Append(log.tiles, CellOf(mx, my))
           /\ pc' = "mcu"

\* C26 holds of the images whose coordinates an int16 holds: in an interleaved
\* scan of a sequential 4:2:0 image the callback is invoked once per MCU, in
\* the step that copies the MCU's Cr block and before the next MCU, with
\* the top-left (16 * mx, 16 * my); the cell then holds the four luma
\* blocks of the MCU, each in its quadrant, and its Cb and Cr blocks, each
\* sample over 2x2 pixels, and nothing of another MCU.
C26_TilesWithinInt16 ==
  [][(Tile420Step /\ 16 * sc.mxx <= Pow2(15) /\ 16 * sc.myy <= Pow2(15)) =>
       /\ pc # "tile" => calls' = calls
       /\ pc = "mcu" => Len(calls) = mcu + 1
       /\ pc = "tile" => (TileCopy /\ TileCallback(16 * mx, 16 * my))]_vars

\* C26: in an interleaved scan of a sequential 4:2:0 image the callback is
\* invoked once per MCU, in the step that copies the MCU's Cr block and
\* before the next MCU, with the top-left (16 * mx, 16 * my); the cell then
\* holds the four luma blocks of the MCU, each in its quadrant, and its Cb
\* and Cr blocks, each sample over 2x2 pixels, and nothing of another MCU.
C26_TilePerMcu ==
  [][Tile420Step =>
       /\ pc # "tile" => calls' = calls
       /\ pc = "mcu" => Len(calls) = mcu + 1
       /\ pc = "tile" => (TileCopy /\ TileCallback(16 * mx, 16 * my))]_vars

\* The last MCU of a 33x17 image has been emitted: six callbacks, the
\* last at (32, 16) with the luma blocks (4..5, 2..3).
C26_Witness ==
  /\ InScan /\ ~img.progressive /\ Is420(img) /\ sc.nComp = 3 /\ pc = "mcu"
  /\ Len(calls) = 6 /\ calls[6].x = 32 /\ calls[6].y = 16
  /\ pkg.callbackBuf.y[3] = sample(1, 0, [bx |-> 5, by |-> 3])
  /\ pkg.callbackBuf.cb = sample(1, 1, [bx |-> 2, by |-> 1])

\* --------------------------------------------------------------- the clip
\* C28: reconstructBlock gives for the sample c the byte 0 when c <= -128,
\* 255 when c >= 128 and c + 128 otherwise; the value that is converted to a
\* byte lies in 0 .. 255, so the conversion does not wrap.
C28_Clip ==
  (InScan /\ pc = "tile" /\ ~inp.others) =>
    /\ blk.pix = IF blk.c <= -128 THEN 0 ELSE IF blk.c >= 128 THEN 255 ELSE blk.c + 128
    /\ blk.lvl \in 0 .. 255
    /\ blk.pix = blk.lvl

\* The sample -128, the least that is not below the floor, gives 0.
C28_Witness == InScan /\ pc = "tile" /\ blk.c = -128 /\ blk.lvl = 0 /\ blk.pix = 0

\* -------------------------------------------------------------- the store
\* The store index of the p-th block visited in this scan, and the number
\* of the blocks of its component among the first p.
VisitedIndex(p) ==
  storeIndex(sc.mxx, img.comp[visited[p][1]].h,
             [bx |-> visited[p][2], by |-> visited[p][3]])

VisitedRank(p) == Cardinality({q \in 1 .. p : visited[q][1] = visited[p][1]})

\* C29: in a progressive scan the store of a component has
\* mxx * myy * h * v entries, the index by * mxx * h + bx of every visited
\* block is one of them, and no two visited blocks have the same index in
\* the same store; so in the first DC scan every block decoded before the
\* current one is found in its entry, with the DC value that the deltas up
\* to it give.
C29_StoreIndex ==
  (InScan /\ img.progressive /\ pc # "done") =>
    \A p \in 1 .. Len(visited) :
      LET ci == visited[p][1]
      IN  /\ DOMAIN progCoeffs[ci] =
               0 .. sc.mxx * sc.myy * img.comp[ci].h * img.comp[ci].v - 1
          /\ VisitedIndex(p) \in DOMAIN progCoeffs[ci]
          /\ \A q \in 1 .. Len(visited) :
               (visited[q][1] = ci /\ VisitedIndex(q) = VisitedIndex(p)) => q = p
          /\ (p < Len(visited) /\ nScans = 1 /\ sc.ah = 0 /\ sc.zigStart = 0 /\ img.ri = 0) =>
               progCoeffs[ci][VisitedIndex(p)][0] =
                 SumSeq(SubSeq(log.dcs[ci], 1, VisitedRank(p))) * Pow2(sc.al)

\* The second row of a 33x9 image of one component with h = 4: the block
\* (4, 1), the tenth visited, has the index 12; the sixth, (0, 1), is saved
\* at the index 8.
C29_Witness ==
  /\ InScan /\ img.progressive /\ sc.nComp = 1 /\ img.nComp = 1
  /\ img.comp[0].h = 4 /\ img.comp[0].v = 3 /\ img.width = 33
  /\ pc = "fin" /\ Len(visited) = 10 /\ bx = 4 /\ by = 1
  /\ VisitedIndex(10) = 12 /\ b[0] = 10 /\ progCoeffs[0][8][0] = 6

\* ------------------------------------------------------ a failed block
\* C30: in a progressive scan the store changes only at the end of a block
\* that was decoded without an error, and then only in the entry of that
\* block, which gets the block; the step that fails changes nothing and no
\* step follows it. So after an error the entry of the failed block is
\* what it was when the block was loaded and the entries of the blocks
\* before are as they were saved.
C30_FailedBlockNotSaved ==
  [][(InScan /\ img.progressive /\ pc # "idle" /\ OwnStep) =>
       /\ pc # "fin" => progCoeffs' = progCoeffs
       /\ pc' = "failed" => (progCoeffs' = progCoeffs /\ pc # "fin")
       /\ pc = "failed" => pc' = "failed"
       /\ pc = "fin" =>
            /\ progCoeffs' =
                 [progCoeffs EXCEPT ![sc.scan[i].compIndex][CurrentEntry] = b]
            /\ \A k \in DOMAIN progCoeffs[sc.scan[i].compIndex] :
                 k # CurrentEntry =>
                   progCoeffs'[sc.scan[i].compIndex][k] = progCoeffs[sc.scan[i].compIndex][k]]_vars

\* The refinement of the second block has failed after it changed the
\* block: the entry of the block is as the first pass left it, and the
\* first block is saved with its refinement.
C30_Witness ==
  /\ InScan /\ img.progressive /\ sc.ah = 1 /\ pc = "failed" /\ Len(visited) = 2
  /\ CurrentEntry = 1 /\ LoadedBlock[unzig[2]] = 2 /\ b[unzig[2]] = 3
  /\ progCoeffs[0][0][unzig[2]] = 3

\* The scan of the wide image from its start comes to the state that
\* SpecWide takes it up in.
WideStartReached ==
  (img = WideInput.img /\ mcu = WideStart /\ pc = "block" /\ i = 2 /\ j = 0) =>
    InitAfterBlocks(WideInput, WideStart, 5)

\* ------------------------------------------------ eobRun between scans
\* processSOS stands before the first block of an accepted scan.
FirstBlockOfScan == InScan /\ pc = "block" /\ visited = << >> /\ mcu = 0

\* C27: at the first block of every scan eobRun is 0: a run that was left
\* pending when the scan before ended does not reach into the next scan.
C27_EobRunPerScan == FirstBlockOfScan => eobRun = 0

\* C27, its consequence: the first block of a scan is never decoded as a
\* block of an end-of-band run.
C27_FirstBlockDecoded ==
  (InScan /\ Len(visited) = 1 /\ mcu = 0 /\ ~blk.skipped) => blk.eobIn = 0

\* ------------------------------------------------ the last coefficients
\* A progressive block decoded by a first pass of the DC coefficient, a
\* first pass of the coefficients 61 to 63 at al = 1 and their refinement:
\* runs that end at or pass the position 63, insertions at 63.
BandInputs ==
  {[img |-> Frame(Gray, 8, 8, TRUE, 0),
    inp |-> [others |-> FALSE, truth |-> NoTruth,
             hdrs |-> << {Hdr(<< Sel(1) >>, 0, 0, 0, 0)},
                         {Hdr(<< Sel(1) >>, 61, 63, 0, 1)},
                         {Hdr(<< Sel(1) >>, 61, 63, 1, 0)} >>,
             dcSyms |-> {1}, acSyms |-> {0, 1, 17, 33, 49, 240}, exts |-> {-1, 1},
             bitsVals |-> {}, bitVals |-> {TRUE, FALSE}, errs |-> {},
             rstPairs |-> {}]]}

InitBand == InitWith(BaseInputs \cup ProgInputs \cup BandInputs)

SpecBand == InitBand /\ [][Next]_vars

\* ------------------------------------------------ the band of a scan
\* The steps of the decoding of one block, from its load to its end.
DecodePcs ==
  {"dcHuff", "dcExt", "acHuff", "acExt", "acBits",
   "rfDcBit", "rfHuff", "rfBits", "rfSign", "nzBit"}

\* The natural indexes of the coefficients that the step changes.
Changed == {u \in 0 .. blockSize - 1 : b'[u] # b[u]}

\* What the block was loaded as (226-230).
LoadedOrZero == IF img.progressive THEN LoadedBlock ELSE ZeroBlock

\* C31: the block has 64 coefficients and the band lies within 0..63; a
\* block that is not skipped starts as its store entry (all zero in a
\* sequential image); every later step changes only coefficients whose
\* zig-zag position is in zigStart..zigEnd, coefficient 0 only when
\* zigStart = 0; so all through the decoding of the block and at its end
\* every coefficient outside the band has the value that was loaded.
C31_BandOnly ==
  [][(InScan /\ pc # "idle") =>
       /\ DOMAIN b' = 0 .. blockSize - 1
       /\ 0 <= sc.zigStart /\ sc.zigStart <= sc.zigEnd /\ sc.zigEnd <= blockSize - 1
       /\ BandOf(sc) \subseteq 0 .. blockSize - 1
       /\ (pc = "block" /\ blk'.skipped) => b' = b
       /\ (pc = "block" /\ ~blk'.skipped) =>
            b' = IF img.progressive
                   THEN progCoeffs[sc.scan[i].compIndex][CurrentEntry']
                   ELSE ZeroBlock
       /\ pc # "block" =>
            /\ Changed \subseteq BandOf(sc)
            /\ 0 \in Changed => sc.zigStart = 0
       /\ pc \in DecodePcs \cup {"fin"} =>
            \A u \in (0 .. blockSize - 1) \ BandOf(sc) : b[u] = LoadedOrZero[u]]_vars

\* The end of a block of a scan of the coefficients 1 to 2 that has
\* changed the coefficient at the zig-zag position 2, with the DC
\* coefficient of an earlier scan loaded and kept.
C31_Witness ==
  /\ InScan /\ img.progressive /\ sc.zigStart = 1 /\ sc.zigEnd = 2 /\ pc = "fin"
  /\ LoadedBlock[0] # 0 /\ b[0] = LoadedBlock[0]
  /\ b[unzig[3]] # LoadedBlock[unzig[3]]

\* The same in a refinement scan, by an insertion.
C31_WitnessRefined ==
  /\ C31_Witness /\ sc.ah = 1
  /\ LoadedBlock[unzig[3]] = 0 /\ b[unzig[3]] \in {-1, 1}

\* The end of a refinement of the coefficients 61 to 63 that has inserted
\* the last coefficient of the block.
C31_WitnessLast ==
  /\ InScan /\ img.progressive /\ sc.zigEnd = blockSize - 1 /\ sc.ah = 1 /\ pc = "fin"
  /\ LoadedBlock[0] # 0 /\ b[0] = LoadedBlock[0]
  /\ LoadedBlock[63] = 0 /\ b[63] # 0

====
